---- MODULE Spec2Model ----
(***************************************************************************)
(* HAYA-DISK: per-user lock registry, directory cache, and the request     *)
(* handlers that use them.                                                  *)
(*                                                                         *)
(* sync.RWMutex is modelled after the Go runtime: Lock() first takes the   *)
(* writer mutex and announces itself (from then on new RLock() calls       *)
(* block), then waits for the active readers to leave; Unlock() admits     *)
(* every reader that blocked meanwhile and frees the writer mutex.         *)
(***************************************************************************)
EXTENDS Integers, Sequences, FiniteSets, TLC

\* ------------------------------------------------------------------ bounds
NumHandlers == 2
MaxLocks == 4

Handlers == 1..NumHandlers
Names == {"a", "b", "c"}
\* the usernames the lock-service clients of SpecLock draw from
LockNames == {"a", "b"}
\* the username the handlers of SpecLockFair contend for
LiveNames == {"a"}
Nil == 0

VARIABLES
    userFileLocks,  \* services.userFileLocks: username -> lock instance (0 = absent)
    locks,          \* the sync.RWMutex instances created so far, by instance number
    lockMapMutex,   \* services.lockMapMutex
    pc,             \* position of each request-handling goroutine
    lk,             \* the lock-service call a goroutine is inside
    users,          \* table users: username -> unique_code (0 = no such user)
    files,          \* table files: the rows
    disk,           \* storage/<username>_<code>: the directory trees
    fileListCache,  \* services.fileListCache: key -> CacheEntry
    folderSizeCache,\* services.folderSizeCache: folder path -> bytes
    now,            \* time.Now(), in seconds
    req,            \* the request a goroutine is serving, with its locals
    nreq,           \* requests accepted so far
    observed,       \* what the callers of the caches have seen of them
    cacheMutex,     \* services.cacheMutex: the goroutine inside Lock() (0 = free)
    uploadLimiter,  \* middleware.uploadLimiter: the RateLimiter of /upload
    backupScheduler \* services.backupScheduler: the BackupScheduler and its goroutines

lockVars == <<userFileLocks, locks, lockMapMutex>>
storeVars == <<users, files, disk>>
cacheVars == <<fileListCache, folderSizeCache, now, observed, cacheMutex>>
\* what the lock service never touches
rest == <<users, files, disk, fileListCache, folderSizeCache, now, req, nreq, observed,
         cacheMutex, uploadLimiter, backupScheduler>>
vars == <<userFileLocks, locks, lockMapMutex, pc, lk, users, files, disk,
          fileListCache, folderSizeCache, now, req, nreq, observed, cacheMutex,
          uploadLimiter, backupScheduler>>

\* ------------------------------------------------------- sync.RWMutex
NewRWMutex == [w |-> Nil, held |-> FALSE, readers |-> {}, blocked |-> {}]

\* a reader lock that excludes other readers
RLockAdmits_Exclusive(m) == m.w = Nil /\ m.readers = {}

\* readers that overtake a writer that is waiting for the lock
RLockAdmits_Barging(m) == ~m.held

\* RLock succeeds at once unless a writer has announced itself or holds the lock
RLockAdmits(m) == m.w = Nil

\* RLock(): enter, or queue behind the pending/active writer
RWRLock(m, h) ==
    IF RLockAdmits(m) THEN [m EXCEPT !.readers = @ \cup {h}]
    ELSE [m EXCEPT !.blocked = @ \cup {h}]

RWRUnlock(m, h) == [m EXCEPT !.readers = @ \ {h}]

\* Lock(), first half: rw.w.Lock() and the announcement to readers
WriterMayAnnounce(m) == m.w = Nil
RWAnnounce(m, h) == [m EXCEPT !.w = h]

\* a writer that does not wait for the active readers
WriterMayEnter_NoDrain(m, h) == m.w = h

\* Lock(), second half: the active readers have left
WriterMayEnter(m, h) == m.w = h /\ m.readers = {}
RWEnter(m) == [m EXCEPT !.held = TRUE]

\* Unlock(): blocked readers are released together, then rw.w.Unlock()
RWUnlock(m) == [m EXCEPT !.w = Nil, !.held = FALSE,
                         !.readers = m.readers \cup m.blocked, !.blocked = {}]

NoCall == [op |-> "none", user |-> "", cont |-> "", got |-> Nil]

\* the call returns to its caller; a finished request keeps nothing
Return(h) ==
    /\ pc' = [pc EXCEPT ![h] = lk[h].cont]
    /\ lk' = [lk EXCEPT ![h] = IF lk[h].cont \in {"idle", "done"} THEN NoCall ELSE @]

\* a handler calls op(username) of file_lock_service.go and resumes at cont
Call(h, op, u, cont) ==
    /\ pc' = [pc EXCEPT ![h] = "g_rlock"]
    /\ lk' = [lk EXCEPT ![h] = [op |-> op, user |-> u, cont |-> cont, got |-> Nil]]

\* ------------------------------------------------- GetUserFileLock
\* one registry slot shared by every username
Slot_Global(u) == "a"

\* the key of userFileLocks[username]
Slot(u) == u

\* lock, exists := userFileLocks[username]
Lookup(u) == userFileLocks[Slot(u)]

\* lockMapMutex.RLock()
GetRLock(h) ==
    /\ UNCHANGED rest
    /\ pc[h] = "g_rlock"
    /\ lockMapMutex' = RWRLock(lockMapMutex, h)
    /\ pc' = [pc EXCEPT ![h] = IF RLockAdmits(lockMapMutex) THEN "g_read" ELSE "g_rwait"]
    /\ UNCHANGED <<userFileLocks, locks, lk>>

GetRWake(h) ==
    /\ UNCHANGED rest
    /\ pc[h] = "g_rwait"
    /\ h \in lockMapMutex.readers
    /\ pc' = [pc EXCEPT ![h] = "g_read"]
    /\ UNCHANGED <<userFileLocks, locks, lockMapMutex, lk>>

\* lock, exists := userFileLocks[username]; RUnlock(); if exists { return lock }
GetRead(h) ==
    /\ UNCHANGED rest
    /\ pc[h] = "g_read"
    /\ lockMapMutex' = RWRUnlock(lockMapMutex, h)
    /\ IF Lookup(lk[h].user) # Nil
       THEN /\ lk' = [lk EXCEPT ![h].got = Lookup(lk[h].user)]
            /\ pc' = [pc EXCEPT ![h] = "act"]
       ELSE /\ pc' = [pc EXCEPT ![h] = "g_wlock"]
            /\ UNCHANGED lk
    /\ UNCHANGED <<userFileLocks, locks>>

\* lockMapMutex.Lock()
GetWLock(h) ==
    /\ UNCHANGED rest
    /\ pc[h] = "g_wlock"
    /\ WriterMayAnnounce(lockMapMutex)
    /\ lockMapMutex' = RWAnnounce(lockMapMutex, h)
    /\ pc' = [pc EXCEPT ![h] = "g_wwait"]
    /\ UNCHANGED <<userFileLocks, locks, lk>>

GetWEnter(h) ==
    /\ UNCHANGED rest
    /\ pc[h] = "g_wwait"
    /\ WriterMayEnter(lockMapMutex, h)
    /\ lockMapMutex' = RWEnter(lockMapMutex)
    /\ pc' = [pc EXCEPT ![h] = "g_create"]
    /\ UNCHANGED <<userFileLocks, locks, lk>>

\* check-then-create without the second look
Recheck_Skipped(u) == FALSE

\* the double-check after acquiring the write lock: an entry published
\* meanwhile is reused
Recheck(u) == Lookup(u) # Nil

\* if lock, exists := userFileLocks[username]; exists { return lock }
\* lock = &sync.RWMutex{}; userFileLocks[username] = lock; deferred Unlock()
GetCreate(h) ==
    /\ UNCHANGED rest
    /\ pc[h] = "g_create"
    /\ lockMapMutex' = RWUnlock(lockMapMutex)
    /\ IF Recheck(lk[h].user)
       THEN /\ lk' = [lk EXCEPT ![h].got = Lookup(lk[h].user)]
            /\ UNCHANGED <<userFileLocks, locks>>
       ELSE /\ Len(locks) < MaxLocks
            /\ locks' = Append(locks, NewRWMutex)
            /\ userFileLocks' = [userFileLocks EXCEPT ![Slot(lk[h].user)] = Len(locks) + 1]
            /\ lk' = [lk EXCEPT ![h].got = Len(locks) + 1]
    /\ pc' = [pc EXCEPT ![h] = "act"]

\* ------------------------------ Lock/Unlock/RLock/RUnlock on the result
\* GetUserFileLock(username).Lock(), first half
WAnnounce(h) ==
    /\ UNCHANGED rest
    /\ pc[h] = "act" /\ lk[h].op = "Lock"
    /\ WriterMayAnnounce(locks[lk[h].got])
    /\ locks' = [locks EXCEPT ![lk[h].got] = RWAnnounce(@, h)]
    /\ pc' = [pc EXCEPT ![h] = "w_wait"]
    /\ UNCHANGED <<userFileLocks, lockMapMutex, lk>>

\* GetUserFileLock(username).Lock(), second half: the lock is granted
WEnter(h) ==
    /\ UNCHANGED rest
    /\ pc[h] = "w_wait"
    /\ WriterMayEnter(locks[lk[h].got], h)
    /\ locks' = [locks EXCEPT ![lk[h].got] = RWEnter(@)]
    /\ Return(h)
    /\ UNCHANGED <<userFileLocks, lockMapMutex>>

\* GetUserFileLock(username).RLock(), granted at once
RGrant(h) ==
    /\ UNCHANGED rest
    /\ pc[h] = "act" /\ lk[h].op = "RLock"
    /\ RLockAdmits(locks[lk[h].got])
    /\ locks' = [locks EXCEPT ![lk[h].got] = RWRLock(@, h)]
    /\ Return(h)
    /\ UNCHANGED <<userFileLocks, lockMapMutex>>

\* GetUserFileLock(username).RLock() behind a pending or active writer
RBlock(h) ==
    /\ UNCHANGED rest
    /\ pc[h] = "act" /\ lk[h].op = "RLock"
    /\ ~RLockAdmits(locks[lk[h].got])
    /\ locks' = [locks EXCEPT ![lk[h].got] = RWRLock(@, h)]
    /\ pc' = [pc EXCEPT ![h] = "r_wait"]
    /\ UNCHANGED <<userFileLocks, lockMapMutex, lk>>

\* the writer's Unlock() has released this reader
RWake(h) ==
    /\ UNCHANGED rest
    /\ pc[h] = "r_wait"
    /\ h \in locks[lk[h].got].readers
    /\ Return(h)
    /\ UNCHANGED <<userFileLocks, locks, lockMapMutex>>

\* GetUserFileLock(username).Unlock(); unlocking a mutex that is not
\* write-locked is a fatal runtime error
WUnlock(h) ==
    /\ UNCHANGED rest
    /\ pc[h] = "act" /\ lk[h].op = "Unlock"
    /\ IF locks[lk[h].got].held
       THEN /\ locks' = [locks EXCEPT ![lk[h].got] = RWUnlock(@)]
            /\ Return(h)
       ELSE /\ pc' = [pc EXCEPT ![h] = "fatal"]
            /\ UNCHANGED <<locks, lk>>
    /\ UNCHANGED <<userFileLocks, lockMapMutex>>

\* GetUserFileLock(username).RUnlock()
RUnlock(h) ==
    /\ UNCHANGED rest
    /\ pc[h] = "act" /\ lk[h].op = "RUnlock"
    /\ IF h \in locks[lk[h].got].readers
       THEN /\ locks' = [locks EXCEPT ![lk[h].got] = RWRUnlock(@, h)]
            /\ Return(h)
       ELSE /\ pc' = [pc EXCEPT ![h] = "fatal"]
            /\ UNCHANGED <<locks, lk>>
    /\ UNCHANGED <<userFileLocks, lockMapMutex>>

LockStep(h) ==
    \/ GetRLock(h) \/ GetRWake(h) \/ GetRead(h)
    \/ GetWLock(h) \/ GetWEnter(h) \/ GetCreate(h)
    \/ WAnnounce(h) \/ WEnter(h) \/ RGrant(h) \/ RBlock(h) \/ RWake(h)
    \/ WUnlock(h) \/ RUnlock(h)

\* ------------------------------------------------- users, files, storage
Codes == {1, 2}
Folders == {<<>>, <<"d">>}

\* filepath.Join(folder, name), as path components below the storage folder
Join(folder, name) == Append(folder, name)

\* storage_path LIKE path || '/%'
IsUnder(q, path) == Len(q) > Len(path) /\ SubSeq(q, 1, Len(path)) = path

\* the locals of a request: its inputs (user of the session, folder, name,
\* target folder, the call that the environment makes fail), the response
\* status, and what the handler has computed so far
NewReq(kind, user, folder, name, target, fail) ==
    [kind |-> kind, user |-> user, code |-> users[user], folder |-> folder,
     name |-> name, target |-> target, fail |-> fail, status |-> 0, size |-> 0,
     touched |-> FALSE, inval |-> FALSE, snapRows |-> {}, snapTree |-> {}, got |-> {},
     gate |-> "none"]
NoReq ==
    [kind |-> "none", user |-> "", code |-> 0, folder |-> <<>>,
     name |-> "", target |-> <<>>, fail |-> "none", status |-> 0, size |-> 0,
     touched |-> FALSE, inval |-> FALSE, snapRows |-> {}, snapTree |-> {}, got |-> {},
     gate |-> "none"]

\* config.StorageDir/<username>_<uniqueCode> as a directory of the disk
\* (GetUserStoragePath); a directory that does not exist has exists = FALSE
NoDir == [exists |-> FALSE, tree |-> {}]
EmptyDir == [exists |-> TRUE, tree |-> {}]

Entry(path, isDir, by) == [path |-> path, dir |-> isDir, by |-> by]
Row(user, path, isDir, size) == [user |-> user, path |-> path, dir |-> isDir, size |-> size]

\* os.Stat(path) succeeds
OnDisk(d, path) == d.exists /\ \E e \in d.tree : e.path = path
IsDirOnDisk(d, path) == d.exists /\ \E e \in d.tree : e.path = path /\ e.dir
\* the folder a new entry goes into exists
ParentOnDisk(d, folder) == d.exists /\ (folder = <<>> \/ IsDirOnDisk(d, folder))

\* os.Remove / os.RemoveAll of path
RemoveAll(d, path) == [d EXCEPT !.tree = {e \in @ : e.path # path /\ ~IsUnder(e.path, path)}]
\* os.Remove: a directory goes only when it is empty
Remove(d, path) ==
    IF \E e \in d.tree : IsUnder(e.path, path) THEN d
    ELSE [d EXCEPT !.tree = {e \in @ : e.path # path}]

\* the registered users
Accounts == {u \in Names : users[u] # 0}

\* SELECT ... FROM files WHERE username = ? AND storage_path = ?
RowsAt(user, path) == {r \in files : r.user = user /\ r.path = path}
UserRows(user) == {r \in files : r.user = user}

\* FileExistsInDB: COUNT(*) > 0
FileExistsInDB(user, path) == RowsAt(user, path) # {}

\* the INSERT of AddFileMetadata is accepted: storage_path is UNIQUE over the
\* whole table and username REFERENCES users(username)
InsertAccepted(user, path) ==
    /\ ~\E r \in files : r.path = path
    /\ users[user] # 0

\* the server starts on the database and the storage tree of its earlier runs:
\* two accounts, the first with one folder it once created
InitStore ==
    /\ users = [u \in Names |-> IF u = "a" THEN 1 ELSE IF u = "b" THEN 2 ELSE 0]
    /\ files = {Row("a", <<"d">>, TRUE, 0)}
    /\ disk = [k \in Names \X Codes |->
                 IF k = <<"a", 1>> THEN [exists |-> TRUE, tree |-> {Entry(<<"d">>, TRUE, Nil)}]
                 ELSE IF k = <<"b", 2>> THEN EmptyDir ELSE NoDir]

\* --------------------------------------------------------- cache_service
\* strings.HasPrefix(s, prefix), on strings as sequences of characters
HasPrefix(str, prefix) ==
    Len(str) >= Len(prefix) /\ SubSeq(str, 1, Len(prefix)) = prefix

\* a username of Names as a string
NameChars(u) == <<u>>
CodeChars(c) == IF c = 1 THEN <<"1">> ELSE <<"2">>
StorageDir == <<"s", "t", "o", "r", "a", "g", "e">>

\* GetUserStoragePath(username, code) joined with a folder: the key the
\* handlers use for the folder-size cache
FolderKey(u, c, folder) ==
    StorageDir \o <<"/">> \o NameChars(u) \o <<"_">> \o CodeChars(c)
        \o (IF folder = <<>> THEN <<>> ELSE <<"/">> \o folder)

\* int64 arithmetic, narrowed to SizeBits bits: two's complement wrap-around
SizeBits == 3
Wrap(n) == ((n + 2^(SizeBits - 1)) % 2^SizeBits) - 2^(SizeBits - 1)

\* UpdateFolderSize: folderSizeCache[folderPath] += sizeDelta (an absent
\* entry counts as 0)
UpdateFolderSize(cache, key, delta) ==
    LET old == IF \E e \in cache : e.key = key
               THEN (CHOOSE e \in cache : e.key = key).size ELSE 0
    IN  {e \in cache : e.key # key} \cup {[key |-> key, size |-> Wrap(old + delta)]}

\* GetFolderSize(folderPath): size, exists := folderSizeCache[folderPath]
GetFolderSize(cache, key) ==
    IF \E e \in cache : e.key = key
    THEN [size |-> (CHOOSE e \in cache : e.key = key).size, found |-> TRUE]
    ELSE [size |-> 0, found |-> FALSE]

\* InvalidateUserCache that deletes only the key equal to the username
InvalidateUserCache_ExactKey(cache, username) ==
    {e \in cache : e.key # username}

\* InvalidateUserCache: delete every key that starts with the username
InvalidateUserCache(cache, username) ==
    {e \in cache : ~HasPrefix(e.key, username)}

cacheTTL == 5
MaxTime == 7
Times == 0..MaxTime
Payloads == {1, 2}
\* the keys of the file-list cache: a username followed by a folder
CacheKeys == {NameChars(u) \o <<"/">> : u \in LockNames}

\* GetCachedFileList(key) at time t: (entry.Data, true) unless the key is
\* absent or time.Now().After(entry.ExpiresAt)
GetCachedFileList(cache, key, t) ==
    IF \E e \in cache : e.key = key /\ ~(t > e.expires)
    THEN [data |-> (CHOOSE e \in cache : e.key = key).data, found |-> TRUE]
    ELSE [data |-> Nil, found |-> FALSE]

\* SetCachedFileList(key, data) at time t that leaves the expiry of an entry
\* it replaces as it was
SetCachedFileList_KeepsExpiry(cache, key, data, t) ==
    {e \in cache : e.key # key} \cup
        {[key |-> key, data |-> data,
          expires |-> IF \E e \in cache : e.key = key
                      THEN (CHOOSE e \in cache : e.key = key).expires ELSE t + cacheTTL]}

\* SetCachedFileList(key, data) at time t:
\* fileListCache[key] = &CacheEntry{data, time.Now().Add(cacheTTL)}
SetCachedFileList(cache, key, data, t) ==
    {e \in cache : e.key # key} \cup {[key |-> key, data |-> data, expires |-> t + cacheTTL]}

\* nothing stored for the key since it was last invalidated; no call just made
NoPut == [data |-> Nil, at |-> 0, over |-> FALSE]
NoGet == [key |-> <<>>, data |-> Nil, found |-> FALSE]
\* the owner's entries have not been invalidated since the key was last set
NoCut == [cut |-> FALSE, at |-> 0]

\* the user a cache key belongs to: the username the key starts with
KeysOf(u) == {NameChars(u) \o <<"/">>}

\* a caller's GetCachedFileList(key)
CallGet(key) ==
    /\ observed' = [observed EXCEPT !.get =
                      [key |-> key] @@ GetCachedFileList(fileListCache, key, now)]
    /\ UNCHANGED <<lockVars, pc, lk, storeVars, fileListCache, folderSizeCache, now, req, nreq, cacheMutex, uploadLimiter, backupScheduler>>

\* a caller's SetCachedFileList(key, data)
CallSet(key, data) ==
    /\ fileListCache' = SetCachedFileList(fileListCache, key, data, now)
    /\ observed' = [observed EXCEPT
                      !.put[key] = [data |-> data, at |-> now, over |-> @.data # Nil],
                      !.cut[key] = NoCut,
                      !.get = NoGet]
    /\ UNCHANGED <<lockVars, pc, lk, storeVars, folderSizeCache, now, req, nreq, cacheMutex, uploadLimiter, backupScheduler>>

\* a caller's InvalidateUserCache(username)
CallInvalidate(u) ==
    /\ fileListCache' = InvalidateUserCache(fileListCache, NameChars(u))
    /\ folderSizeCache' = InvalidateUserCache(folderSizeCache, NameChars(u))
    /\ observed' = [observed EXCEPT
                      !.put = [k \in CacheKeys |-> IF HasPrefix(k, NameChars(u)) THEN NoPut ELSE @[k]],
                      !.cut = [k \in CacheKeys |->
                                 IF k \in KeysOf(u) /\ observed.put[k] # NoPut
                                 THEN [cut |-> TRUE, at |-> observed.put[k].at] ELSE @[k]],
                      !.get = NoGet]
    /\ UNCHANGED <<lockVars, pc, lk, storeVars, now, req, nreq, cacheMutex, uploadLimiter, backupScheduler>>

\* a second passes
Tick ==
    /\ now < MaxTime
    /\ now' = now + 1
    /\ observed' = [observed EXCEPT !.get = NoGet]
    /\ UNCHANGED <<lockVars, pc, lk, storeVars, fileListCache, folderSizeCache, req, nreq, cacheMutex, uploadLimiter, backupScheduler>>

\* the folder paths and the deltas the callers of UpdateFolderSize pass
SizeKeys == {FolderKey("a", 1, folder) : folder \in Folders}
Deltas == {-2, -1, 1, 3}

\* cacheMutex.Lock() may return with every goroutine let in at once
MutexFree_Always(m) == TRUE

\* cacheMutex.Lock() may return: nobody is inside
MutexFree(m) == m = Nil

\* a goroutine calls UpdateFolderSize(folderPath, sizeDelta)
UpdateFolderSizeCall(h) ==
    /\ pc[h] = "idle"
    /\ \E folder \in Folders : \E d \in Deltas :
        req' = [req EXCEPT ![h] =
                  [NewReq("fsize", "a", folder, "", <<>>, "none") EXCEPT !.code = 1, !.size = d]]
    /\ pc' = [pc EXCEPT ![h] = "fs_lock"]
    /\ UNCHANGED <<lockVars, lk, storeVars, cacheVars, nreq, uploadLimiter, backupScheduler>>

\* cacheMutex.Lock()
UpdateFolderSizeLock(h) ==
    /\ pc[h] = "fs_lock"
    /\ MutexFree(cacheMutex)
    /\ cacheMutex' = h
    /\ pc' = [pc EXCEPT ![h] = "fs_load"]
    /\ UNCHANGED <<lockVars, lk, storeVars, fileListCache, folderSizeCache, now, observed, req, nreq, uploadLimiter, backupScheduler>>

\* the read of folderSizeCache[folderPath] in +=
UpdateFolderSizeLoad(h) ==
    /\ pc[h] = "fs_load"
    /\ req' = [req EXCEPT ![h].got =
                 {GetFolderSize(folderSizeCache, FolderKey(req[h].user, req[h].code, req[h].folder)).size}]
    /\ pc' = [pc EXCEPT ![h] = "fs_store"]
    /\ UNCHANGED <<lockVars, lk, storeVars, cacheVars, nreq, uploadLimiter, backupScheduler>>

\* the write of folderSizeCache[folderPath] in +=
UpdateFolderSizeStore(h) ==
    /\ pc[h] = "fs_store"
    /\ LET key == FolderKey(req[h].user, req[h].code, req[h].folder)
           old == CHOOSE v \in req[h].got : TRUE
       IN folderSizeCache' = {e \in folderSizeCache : e.key # key}
                                \cup {[key |-> key, size |-> Wrap(old + req[h].size)]}
    /\ pc' = [pc EXCEPT ![h] = "fs_unlock"]
    /\ UNCHANGED <<lockVars, lk, storeVars, fileListCache, now, observed, cacheMutex, req, nreq, uploadLimiter, backupScheduler>>

\* the deferred cacheMutex.Unlock(); the call returns
UpdateFolderSizeUnlock(h) ==
    /\ pc[h] = "fs_unlock"
    /\ cacheMutex' = Nil
    /\ observed' = [observed EXCEPT
                      !.total[FolderKey(req[h].user, req[h].code, req[h].folder)] =
                          Wrap(@ + req[h].size)]
    /\ pc' = [pc EXCEPT ![h] = "idle"]
    /\ req' = [req EXCEPT ![h] = NoReq]
    /\ UNCHANGED <<lockVars, lk, storeVars, fileListCache, folderSizeCache, now, nreq, uploadLimiter, backupScheduler>>

\* ------------------------------------------------------ backup_service
MaxCalls == 3

\* InitBackupServiceWithSettings(settings): the scheduler, the goroutines it
\* has started (loops: run(); boots: initial backups in progress), whether
\* the backup directory holds a backup_ entry, and for the observer the
\* number of Start and Stop calls and how many of them are followed (budget),
\* the Start calls (gen) and those of them a returned Stop has stopped
\* a nil error
NoError == "nil"

\* CleanOldBackups has not been called
NoClean == [done |-> FALSE, before |-> {}, at |-> 0, unremovable |-> {}]

NewBackupScheduler(enabled, retentionDays, dir) ==
    [enabled |-> enabled, retentionDays |-> retentionDays,
     isRunning |-> FALSE, stopChan |-> "open", wg |-> 0,
     loops |-> <<>>, boots |-> <<>>, dir |-> dir, log |-> <<>>,
     lastError |-> NoError, started |-> 0, results |-> <<>>,
     calls |-> 0, budget |-> MaxCalls, gen |-> 0, returned |-> {}, panicked |-> FALSE]

\* a day, an hour and a minute of the clock, in ticks of now
HourMinutes == 2
DayHours == 3
Hour == HourMinutes
Day == DayHours * Hour

\* now.Location(): a zone whose clocks are shifted by shift from the instant
\* at on; none, one hour forward, one hour back
Zones ==
    {[at |-> 0, shift |-> 0],
     [at |-> Day + Hour, shift |-> Hour],
     [at |-> Day + 2 * Hour, shift |-> 0 - Hour]}

\* the reading of a clock of zone z at instant t, and its day
Wall(z, t) == t + (IF t >= z.at THEN z.shift ELSE 0)
DayOf(w) == w \div Day

\* time.Date(y, m, d, hour, minute, 0, 0, loc): the instants whose clock
\* reads that; for a reading the zone skips, an instant that is right in one
\* of the two offsets, without saying which
Date(z, day, hour, minute) ==
    LET w == day * Day + hour * Hour + minute
        either == {w, w - z.shift}
        exact == {t \in either : Wall(z, t) = w}
    IN  IF exact # {} THEN exact ELSE either

\* next.Add(24 * time.Hour): the hours of an ordinary day later
Tomorrow(next) == next + DayHours * Hour

\* GetNextBackupTime at instant t: the instants it may return
GetNextBackupTime(z, t, hour, minute) ==
    {IF t > next THEN Tomorrow(next) ELSE next :
        next \in Date(z, DayOf(Wall(z, t)), hour, minute)}

\* GetNextBackupTime has not been called
NoNext == [done |-> FALSE, zone |-> [at |-> 0, shift |-> 0], at |-> 0,
           hour |-> 0, minute |-> 0, next |-> 0, wait |-> 0]

\* GetDurationUntilNextBackup: GetNextBackupTime, then time.Until, which
\* reads the clock again, elapsed later
CallNext ==
    /\ ~observed.next.done
    /\ \E z \in Zones, hour \in 0..(DayHours - 1), minute \in 0..(HourMinutes - 1),
          elapsed \in {0, 1} :
        \E next \in GetNextBackupTime(z, now, hour, minute) :
            /\ observed' = [observed EXCEPT !.next =
                              [done |-> TRUE, zone |-> z, at |-> now, hour |-> hour,
                               minute |-> minute, next |-> next,
                               wait |-> next - (now + elapsed)]]
            /\ now' = now + elapsed
    /\ UNCHANGED <<lockVars, pc, lk, storeVars, fileListCache, folderSizeCache,
                   cacheMutex, req, nreq, uploadLimiter, backupScheduler>>

\* names in the backup directory, as sequences of their parts
BackupPrefix == <<"backup", "_">>
Stamp(t) == <<"t0", "t1", "t2", "t3", "t4", "t5", "t6", "t7">>[t + 1]
BackupName(t) == BackupPrefix \o <<Stamp(t), ".zip">>
LogName == BackupPrefix \o <<"log.txt">>

\* an entry of the backup directory; whole tells a finished archive from
\* what an aborted attempt has left
DirEntry(name, mtime, isDir, whole) ==
    [name |-> name, mtime |-> mtime, isDir |-> isDir, whole |-> whole]

\* os.Create, os.OpenFile(O_CREATE): the entry of that name is replaced
WriteEntry(dir, entry) == {x \in dir : x.name # entry.name} \cup {entry}

\* hasExistingBackup: some entry's name starts with backup_
hasExistingBackup(dir) == \E x \in dir : HasPrefix(x.name, BackupPrefix)

\* logBackup: one line appended to backup_log.txt, unless it cannot be opened
logBackup(bs, t, result, openFails) ==
    IF openFails THEN bs
    ELSE [bs EXCEPT
            !.log = Append(@, [status |-> IF result.success THEN "SUCCESS" ELSE "FAILED",
                               path |-> result.path]),
            !.dir = WriteEntry(@, DirEntry(LogName, t, FALSE, FALSE))]

\* the BackupResult of a loop that has made no attempt yet
NoResult == [success |-> FALSE, error |-> NoError, path |-> <<>>]

\* what may go wrong in an attempt: the archive cannot be created, a source
\* cannot be copied into it, or the log cannot be opened
RunFaults == {"none", "create", "copy", "log"}

\* RunBackup started at time t0 and ending at time t: the record after it
\* and the BackupResult; on an error it returns before logBackup
RunBackup(bs, t0, t, fault) ==
    LET name == BackupName(t0)
        failed == [success |-> FALSE, error |-> fault, path |-> <<>>]
        done == [success |-> TRUE, error |-> NoError, path |-> name]
        seen(b, r) == [b EXCEPT !.results =
                          Append(@, [success |-> r.success, fault |-> fault])]
    IN  IF fault = "create"
        THEN [bs |-> seen([bs EXCEPT !.lastError = fault], failed),
              result |-> failed]
        ELSE IF fault = "copy"
        THEN [bs |-> seen([bs EXCEPT !.lastError = fault,
                                     !.dir = WriteEntry(@, DirEntry(name, t, FALSE, FALSE))],
                          failed),
              result |-> failed]
        ELSE [bs |-> seen(logBackup(
                        [bs EXCEPT !.lastError = NoError,
                                   !.dir = WriteEntry(@, DirEntry(name, t, FALSE, TRUE))],
                        t, done, fault = "log"), done),
              result |-> done]

\* CleanOldBackups: the entries named backup_... modified before the cutoff
OldBackups_AnyName(bs, t) ==
    {x \in bs.dir : x.mtime < t - bs.retentionDays * Day}
OldBackups(bs, t) ==
    LET cutoff == t - bs.retentionDays * Day
    IN  {x \in bs.dir : HasPrefix(x.name, BackupPrefix) /\ x.mtime < cutoff}

\* CleanOldBackups at time t; unremovable are the names whose removal fails
CleanOldBackups(bs, t, unremovable) ==
    IF bs.retentionDays <= 0 THEN bs
    ELSE LET gone == {x \in OldBackups(bs, t) : x.name \notin unremovable}
         IN  [bs EXCEPT !.dir = @ \ gone,
                        !.log = IF \E x \in gone : x.name = LogName THEN <<>> ELSE @]

\* the locals of a goroutine inside Start or Stop
BsReq(kind, gen) == [NoReq EXCEPT !.kind = kind, !.size = gen]

\* a goroutine may call Start or Stop
BsCall(h) ==
    /\ pc[h] = "idle"
    /\ ~backupScheduler.panicked
    /\ backupScheduler.calls < backupScheduler.budget

\* Start, under bs.mu: return if isRunning, else set it; return if disabled
StartFlag(h) ==
    /\ BsCall(h)
    /\ LET bs == backupScheduler
       IN IF bs.isRunning
          THEN /\ backupScheduler' = [bs EXCEPT !.calls = @ + 1]
               /\ UNCHANGED <<pc, req>>
          ELSE /\ backupScheduler' =
                      [bs EXCEPT !.calls = @ + 1, !.isRunning = TRUE, !.gen = @ + 1]
               /\ pc' = [pc EXCEPT ![h] = IF bs.enabled THEN "bs_spawn" ELSE "idle"]
               /\ req' = [req EXCEPT ![h] =
                            IF bs.enabled THEN BsReq("start", bs.gen + 1) ELSE NoReq]
    /\ UNCHANGED <<lockVars, lk, storeVars, cacheVars, nreq, uploadLimiter>>

\* Start, after bs.mu: hasExistingBackup and the initial backup goroutine,
\* bs.wg.Add(1), go bs.run()
StartSpawn(h) ==
    /\ pc[h] = "bs_spawn"
    /\ ~backupScheduler.panicked
    /\ backupScheduler' =
          [backupScheduler EXCEPT
              !.boots = IF hasExistingBackup(backupScheduler.dir) THEN @ ELSE Append(@, now),
              !.wg = @ + 1,
              !.loops = Append(@, [gen |-> req[h].size, st |-> "select",
                                   t0 |-> 0, last |-> NoResult])]
    /\ pc' = [pc EXCEPT ![h] = "idle"]
    /\ req' = [req EXCEPT ![h] = NoReq]
    /\ UNCHANGED <<lockVars, lk, storeVars, cacheVars, nreq, uploadLimiter>>

\* Stop, under bs.mu: return if not isRunning, else clear it
StopFlag(h) ==
    /\ BsCall(h)
    /\ LET bs == backupScheduler
       IN IF ~bs.isRunning
          THEN /\ backupScheduler' = [bs EXCEPT !.calls = @ + 1]
               /\ UNCHANGED <<pc, req>>
          ELSE /\ backupScheduler' = [bs EXCEPT !.calls = @ + 1, !.isRunning = FALSE]
               /\ pc' = [pc EXCEPT ![h] = "bs_close"]
               /\ req' = [req EXCEPT ![h] = BsReq("stop", bs.gen)]
    /\ UNCHANGED <<lockVars, lk, storeVars, cacheVars, nreq, uploadLimiter>>

\* close(bs.stopChan): the close of a closed channel panics
StopClose(h) ==
    /\ pc[h] = "bs_close"
    /\ ~backupScheduler.panicked
    /\ IF backupScheduler.stopChan = "closed"
       THEN /\ backupScheduler' = [backupScheduler EXCEPT !.panicked = TRUE]
            /\ pc' = [pc EXCEPT ![h] = "panic"]
       ELSE /\ backupScheduler' = [backupScheduler EXCEPT !.stopChan = "closed"]
            /\ pc' = [pc EXCEPT ![h] = "bs_wait"]
    /\ UNCHANGED <<lockVars, lk, storeVars, cacheVars, req, nreq, uploadLimiter>>

\* bs.wg.Wait() returns, and Stop with it
StopWait(h) ==
    /\ pc[h] = "bs_wait"
    /\ ~backupScheduler.panicked
    /\ backupScheduler.wg = 0
    /\ backupScheduler' = [backupScheduler EXCEPT !.returned = @ \cup {req[h].size}]
    /\ pc' = [pc EXCEPT ![h] = "idle"]
    /\ req' = [req EXCEPT ![h] = NoReq]
    /\ UNCHANGED <<lockVars, lk, storeVars, cacheVars, nreq, uploadLimiter>>

\* the goroutines the scheduler has started and that have not returned
Loops == 1..Len(backupScheduler.loops)
Alive(l) == backupScheduler.loops[l].st # "exited"

\* run(), select: case <-bs.stopChan: return, with the deferred bs.wg.Done()
LoopStop(l) ==
    /\ ~backupScheduler.panicked
    /\ backupScheduler.loops[l].st = "select"
    /\ backupScheduler.stopChan = "closed"
    /\ backupScheduler' = [backupScheduler EXCEPT !.loops[l].st = "exited", !.wg = @ - 1]
    /\ UNCHANGED <<lockVars, pc, lk, storeVars, cacheVars, req, nreq, uploadLimiter>>

\* a call of CleanOldBackups at some later time, on a directory that holds
\* archives, the log and other files of several ages
CallClean ==
    /\ ~observed.clean.done
    /\ \E unremovable \in SUBSET {x.name : x \in OldBackups(backupScheduler, now)} :
        /\ backupScheduler' = CleanOldBackups(backupScheduler, now, unremovable)
        /\ observed' = [observed EXCEPT !.clean =
                          [done |-> TRUE, before |-> backupScheduler.dir,
                           at |-> now, unremovable |-> unremovable]]
    /\ UNCHANGED <<lockVars, pc, lk, storeVars, fileListCache, folderSizeCache, now,
                   cacheMutex, req, nreq, uploadLimiter>>

\* no more than MaxAttempts scheduled attempts are followed
MaxAttempts == 2

\* run(), select: case <-timer.C: a scheduled backup attempt starts
LoopFire(l) ==
    /\ ~backupScheduler.panicked
    /\ backupScheduler.loops[l].st = "select"
    /\ backupScheduler.started < MaxAttempts
    /\ backupScheduler' = [backupScheduler EXCEPT !.loops[l].st = "backup",
                                                  !.loops[l].t0 = now,
                                                  !.started = @ + 1]
    /\ UNCHANGED <<lockVars, pc, lk, storeVars, cacheVars, req, nreq, uploadLimiter>>

\* DefaultBackupSettings: ScheduleHour 3, ScheduleMinute 0, on the narrowed day
ScheduleHour == 1
ScheduleMinute == 0

\* a zone without clock changes
FixedZone == [at |-> 0, shift |-> 0]

\* run(): GetDurationUntilNextBackup and time.NewTimer(duration) at the top
\* of a round of the loop
TimerArm(l) ==
    /\ ~backupScheduler.panicked
    /\ backupScheduler.loops[l].st = "select"
    /\ ~observed.next.done
    /\ \E next \in GetNextBackupTime(FixedZone, now, ScheduleHour, ScheduleMinute) :
        observed' = [observed EXCEPT !.next =
                        [done |-> TRUE, zone |-> FixedZone, at |-> now,
                         hour |-> ScheduleHour, minute |-> ScheduleMinute,
                         next |-> next, wait |-> next - now]]
    /\ UNCHANGED <<lockVars, pc, lk, storeVars, fileListCache, folderSizeCache, now,
                   cacheMutex, req, nreq, uploadLimiter, backupScheduler>>

\* run(), select: case <-timer.C, once the clock has reached the time the
\* timer was set for (at once when the duration was zero or less)
TimerFire(l) ==
    /\ ~backupScheduler.panicked
    /\ backupScheduler.loops[l].st = "select"
    /\ observed.next.done /\ now >= observed.next.next
    /\ backupScheduler.started < MaxAttempts
    /\ backupScheduler' = [backupScheduler EXCEPT !.loops[l].st = "backup",
                                                  !.loops[l].t0 = now,
                                                  !.started = @ + 1]
    /\ observed' = [observed EXCEPT !.next.done = FALSE,
                                    !.fires = Append(@, observed.next.next)]
    /\ UNCHANGED <<lockVars, pc, lk, storeVars, fileListCache, folderSizeCache, now,
                   cacheMutex, req, nreq, uploadLimiter>>

\* run(): what follows the return of RunBackup
AfterBackup_FailureExits(success) == IF success THEN "clean" ELSE "exited"
AfterBackup_AlwaysCleans(success) == "clean"
AfterBackup(success) == IF success THEN "clean" ELSE "select"

\* run(): RunBackup returns
LoopBackup(l) ==
    /\ ~backupScheduler.panicked
    /\ backupScheduler.loops[l].st = "backup"
    /\ \E fault \in RunFaults :
        LET run == RunBackup(backupScheduler, backupScheduler.loops[l].t0, now, fault)
        IN  backupScheduler' =
                [run.bs EXCEPT !.loops[l].st = AfterBackup(run.result.success),
                               !.loops[l].last = run.result]
    /\ UNCHANGED <<lockVars, pc, lk, storeVars, cacheVars, req, nreq, uploadLimiter>>

\* run(): CleanOldBackups after a successful backup, then the next round
LoopClean(l) ==
    /\ ~backupScheduler.panicked
    /\ backupScheduler.loops[l].st = "clean"
    /\ \E unremovable \in SUBSET {x.name : x \in OldBackups(backupScheduler, now)} :
        backupScheduler' =
            [CleanOldBackups(backupScheduler, now, unremovable)
                EXCEPT !.loops[l].st = "select"]
    /\ UNCHANGED <<lockVars, pc, lk, storeVars, cacheVars, req, nreq, uploadLimiter>>

\* the goroutine of the initial backup: RunBackup returns
BootBackup ==
    /\ ~backupScheduler.panicked
    /\ \E i \in 1..Len(backupScheduler.boots), fault \in RunFaults :
        LET bs == backupScheduler
            run == RunBackup(bs, bs.boots[i], now, fault)
        IN  backupScheduler' =
                [run.bs EXCEPT !.boots = SubSeq(bs.boots, 1, i - 1)
                                           \o SubSeq(bs.boots, i + 1, Len(bs.boots))]
    /\ UNCHANGED <<lockVars, pc, lk, storeVars, cacheVars, req, nreq, uploadLimiter>>

\* the default retention, in place of 7 days
DefaultRetentionDays == 1

\* main: InitBackupService() on a fresh installation
InitBackup == backupScheduler = NewBackupScheduler(TRUE, DefaultRetentionDays, {})

\* ------------------------------------------------------- rate_limiter
\* uploadLimiter = NewRateLimiter(10, time.Minute), narrowed
UploadLimit == 2
UploadWindow == 3

\* NewRateLimiter(limit, window)
NewRateLimiter(limit, window) ==
    [requests |-> [u \in Names |-> <<>>], limit |-> limit, window |-> window]

\* the clean-up loop of Allow that keeps the timestamps of the current
\* fixed bucket of the clock only
ValidRequests_FixedBucket(rl, username, t) ==
    SelectSeq(rl.requests[username], LAMBDA r : r \div rl.window = t \div rl.window)

\* the clean-up loop of Allow, if it kept every stored timestamp
ValidRequests_Unpruned(rl, username, t) ==
    SelectSeq(rl.requests[username], LAMBDA r : TRUE)

\* the clean-up loop of Allow: the timestamps with req.After(now - window)
ValidRequests(rl, username, t) ==
    SelectSeq(rl.requests[username], LAMBDA r : r > t - rl.window)

\* the limit test of Allow, one too late
AtLimit_OffByOne(rl, validRequests) == Len(validRequests) > rl.limit

\* the limit test of Allow: len(validRequests) >= rl.limit
AtLimit(rl, validRequests) == Len(validRequests) >= rl.limit

\* the list a refused Allow leaves, if it stored the attempt as well
Refused_Recorded(rl, username, t) == Append(ValidRequests(rl, username, t), t)

\* the list a refused Allow leaves: return false before any assignment to
\* rl.requests[username]
Refused(rl, username, t) == rl.requests[username]

\* rl.Allow(username) at time t, under rl.mu: the answer and the limiter after it
Allow(rl, username, t) ==
    LET validRequests == ValidRequests(rl, username, t)
    IN  IF AtLimit(rl, validRequests)
        THEN [ok |-> FALSE, rl |-> [rl EXCEPT !.requests[username] = Refused(rl, username, t)]]
        ELSE [ok |-> TRUE, rl |-> [rl EXCEPT !.requests[username] = Append(validRequests, t)]]

\* no Allow call made yet
NoAllow == [user |-> "", at |-> 0, ok |-> FALSE, before |-> <<>>, earlier |-> 0]

\* the calls Allow has admitted for a user with a timestamp in (t - w, t]
AdmittedIn(u, t, w) ==
    LET from == IF t - w + 1 > 0 THEN t - w + 1 ELSE 0
        Sum[i \in from - 1 .. t] ==
            IF i < from THEN 0 ELSE Sum[i - 1] + observed.admitted[u][i]
    IN  Sum[t]

\* what a call of Allow adds to the record of the observer
Observe(u, a) ==
    [observed EXCEPT
        !.allow = [user |-> u, at |-> now, ok |-> a.ok,
                   before |-> uploadLimiter.requests[u],
                   earlier |-> AdmittedIn(u, now, uploadLimiter.window)],
        !.admitted[u][now] = IF a.ok THEN @ + 1 ELSE @]

\* a caller's uploadLimiter.Allow(username)
CallAllow(u) ==
    LET a == Allow(uploadLimiter, u, now)
    IN  /\ uploadLimiter' = a.rl
        /\ observed' = Observe(u, a)
        /\ UNCHANGED <<lockVars, pc, lk, storeVars, fileListCache, folderSizeCache, now, req,
                       nreq, cacheMutex, backupScheduler>>

\* usernames as strings, one of them the beginning of another and one the
\* beginning of the storage directory's name
UserStrings == {<<"a">>, <<"a", "b">>, <<"b">>, <<"s">>}

\* the keys under which a user's listings and folder sizes are cached: the
\* username and a folder, and GetUserStoragePath(username, code)
ListKeyOf(name) == name \o <<"/">>
SizeKeyOf(name) == StorageDir \o <<"/">> \o name \o <<"_">> \o CodeChars(1)

\* InvalidateUserCache has not been called
NoInval == [done |-> FALSE, user |-> <<>>, lists |-> {}, sizes |-> {}]

\* a caller's InvalidateUserCache(username), both caches under cacheMutex
CallInvalidateUser(name) ==
    /\ ~observed.inval.done
    /\ fileListCache' = InvalidateUserCache(fileListCache, name)
    /\ folderSizeCache' = InvalidateUserCache(folderSizeCache, name)
    /\ observed' = [observed EXCEPT !.inval =
                      [done |-> TRUE, user |-> name,
                       lists |-> fileListCache, sizes |-> folderSizeCache]]
    /\ UNCHANGED <<lockVars, pc, lk, storeVars, now, req, nreq, cacheMutex,
                   uploadLimiter, backupScheduler>>

InitLimiter == uploadLimiter = NewRateLimiter(UploadLimit, UploadWindow)

\* nothing has been called yet
InitObserved ==
    observed = [put |-> [k \in CacheKeys |-> NoPut], get |-> NoGet,
                cut |-> [k \in CacheKeys |-> NoCut],
                total |-> [k \in SizeKeys |-> 0],
                allow |-> NoAllow,
                admitted |-> [u \in Names |-> [t \in Times |-> 0]],
                clean |-> NoClean, next |-> NoNext, fires |-> <<>>,
                inval |-> NoInval]

InitCache ==
    /\ fileListCache = {}
    /\ folderSizeCache = {}
    /\ now = 0
    /\ InitObserved
    /\ cacheMutex = Nil

\* ------------------------------- callers of the lock service (any handler)
LockUserFileWrite(h, u) ==
    /\ pc[h] = "idle"
    /\ Call(h, "Lock", u, "w_held")
    /\ UNCHANGED <<lockVars, storeVars, cacheVars, req, nreq, uploadLimiter, backupScheduler>>

UnlockUserFileWrite(h) ==
    /\ pc[h] = "w_held"
    /\ Call(h, "Unlock", lk[h].user, "idle")
    /\ UNCHANGED <<lockVars, storeVars, cacheVars, req, nreq, uploadLimiter, backupScheduler>>

LockUserFileRead(h, u) ==
    /\ pc[h] = "idle"
    /\ Call(h, "RLock", u, "r_held")
    /\ UNCHANGED <<lockVars, storeVars, cacheVars, req, nreq, uploadLimiter, backupScheduler>>

UnlockUserFileRead(h) ==
    /\ pc[h] = "r_held"
    /\ Call(h, "RUnlock", lk[h].user, "idle")
    /\ UNCHANGED <<lockVars, storeVars, cacheVars, req, nreq, uploadLimiter, backupScheduler>>

\* ------------------------------------------------------------- handlers
MaxReq == 2

\* the path of the request below the user's storage folder, and the storage
\* folder the handler computed from the session's username and GetUser
P(h) == Join(req[h].folder, req[h].name)
K(h) == <<req[h].user, req[h].code>>

\* a request arrives on an idle goroutine
Accept(h) ==
    /\ pc[h] = "idle" /\ nreq < MaxReq /\ nreq' = nreq + 1
    /\ UNCHANGED <<uploadLimiter, backupScheduler>>

\* the handler returns while holding the user's lock: the deferred unlock runs
Exit_NoUnlock(h, unlock) == pc' = [pc EXCEPT ![h] = "done"] /\ UNCHANGED lk
Exit(h, unlock) == Call(h, unlock, req[h].user, "done")

\* what the handler saw when it entered its critical section
Snapshot(r) == [r EXCEPT !.snapRows = UserRows(r.user), !.snapTree = disk[<<r.user, r.code>>].tree]

\* the handler changed the user's files or rows and they are not back to what
\* they were when it took the lock
Changed(h) ==
    /\ req[h].touched
    /\ \/ UserRows(req[h].user) # req[h].snapRows
       \/ disk[K(h)].tree # req[h].snapTree

UploadFaults == {"none", "create", "copy", "insert"}

\* where RateLimitMiddleware goes if it called next(w, r) whatever Allow said
AfterAllow_AlwaysNext(ok) == "up_start"

\* where RateLimitMiddleware goes: return after http.Error, or next(w, r)
AfterAllow(ok) == IF ok THEN "up_start" ELSE "done"

\* RateLimitMiddleware in front of /upload: the session's user, then
\* uploadLimiter.Allow(username); 429 when it refuses, else next(w, r)
RateLimitMiddleware(h) ==
    /\ pc[h] = "idle" /\ nreq < MaxReq /\ nreq' = nreq + 1
    /\ \E u \in Accounts : \E folder \in Folders : \E fail \in UploadFaults :
        LET a == Allow(uploadLimiter, u, now)
            r == NewReq("upload", u, folder, "f", <<>>, fail)
        IN  /\ uploadLimiter' = a.rl
            /\ observed' = Observe(u, a)
            /\ req' = [req EXCEPT ![h] =
                         IF a.ok THEN [r EXCEPT !.gate = "ok"]
                         ELSE [r EXCEPT !.gate = "refused", !.status = 429]]
            /\ pc' = [pc EXCEPT ![h] = AfterAllow(a.ok)]
    /\ UNCHANGED <<lockVars, lk, storeVars, fileListCache, folderSizeCache, now, cacheMutex,
                   backupScheduler>>

\* UploadHandler (POST): session, GetUser (a redirect when the user is gone),
\* target path, LockUserFileWrite
UploadStart(h) ==
    /\ pc[h] = "up_start"
    /\ IF users[req[h].user] = 0
       THEN /\ req' = [req EXCEPT ![h].status = 303]
            /\ pc' = [pc EXCEPT ![h] = "done"]
            /\ UNCHANGED lk
       ELSE /\ req' = [req EXCEPT ![h].code = users[req[h].user]]
            /\ Call(h, "Lock", req[h].user, "up_exists")
    /\ UNCHANGED <<lockVars, storeVars, cacheVars, nreq, uploadLimiter, backupScheduler>>

\* FileExistsInDB, then os.Stat: 409 when the file is already there
UploadExists(h) ==
    /\ pc[h] = "up_exists"
    /\ IF FileExistsInDB(req[h].user, P(h)) \/ OnDisk(disk[K(h)], P(h))
       THEN /\ req' = [req EXCEPT ![h] = [Snapshot(@) EXCEPT !.status = 409]]
            /\ Exit(h, "Unlock")
       ELSE /\ req' = [req EXCEPT ![h] = Snapshot(@)]
            /\ pc' = [pc EXCEPT ![h] = "up_create"]
            /\ UNCHANGED lk
    /\ UNCHANGED <<lockVars, storeVars, cacheVars, nreq, uploadLimiter, backupScheduler>>

\* os.Create and io.Copy; a failed copy removes the file again
UploadCreate(h) ==
    /\ pc[h] = "up_create"
    /\ IF req[h].fail \in {"create", "copy"} \/ ~ParentOnDisk(disk[K(h)], req[h].folder)
       THEN /\ req' = [req EXCEPT ![h].status = 500]
            /\ Exit(h, "Unlock")
            /\ UNCHANGED disk
       ELSE /\ disk' = [disk EXCEPT ![K(h)].tree = @ \cup {Entry(P(h), FALSE, h)}]
            /\ req' = [req EXCEPT ![h].touched = TRUE, ![h].size = 1]
            /\ pc' = [pc EXCEPT ![h] = "up_insert"]
            /\ UNCHANGED lk
    /\ UNCHANGED <<lockVars, users, files, cacheVars, nreq, uploadLimiter, backupScheduler>>

\* AddFileMetadata; on an error the file is removed and the answer is 500
UploadInsert(h) ==
    /\ pc[h] = "up_insert"
    /\ IF req[h].fail = "insert" \/ ~InsertAccepted(req[h].user, P(h))
       THEN /\ disk' = [disk EXCEPT ![K(h)] = Remove(@, P(h))]
            /\ req' = [req EXCEPT ![h].status = 500]
            /\ Exit(h, "Unlock")
            /\ UNCHANGED files
       ELSE /\ files' = files \cup {Row(req[h].user, P(h), FALSE, req[h].size)}
            /\ pc' = [pc EXCEPT ![h] = "up_cache"]
            /\ UNCHANGED <<disk, lk, req>>
    /\ UNCHANGED <<lockVars, users, cacheVars, nreq, uploadLimiter, backupScheduler>>

\* UpdateFolderSize(targetPath, size); InvalidateUserCache(username); redirect
UploadCache(h) ==
    /\ pc[h] = "up_cache"
    /\ folderSizeCache' = InvalidateUserCache(
            UpdateFolderSize(folderSizeCache, FolderKey(req[h].user, req[h].code, req[h].folder), req[h].size),
            NameChars(req[h].user))
    /\ fileListCache' = InvalidateUserCache(fileListCache, NameChars(req[h].user))
    /\ req' = [req EXCEPT ![h].status = 303, ![h].inval = TRUE]
    /\ Exit(h, "Unlock")
    /\ UNCHANGED <<lockVars, storeVars, now, observed, cacheMutex, nreq, uploadLimiter, backupScheduler>>

DeleteFaults == {"none", "db", "rm"}
DeleteTargets == {<<<<>>, "f">>, <<<<>>, "d">>, <<<<"d">>, "f">>}

\* CalculateFolderSizeDB: the bytes of the rows below a folder
FolderSizeDB(user, path) ==
    Cardinality({r \in files : r.user = user /\ ~r.dir /\ IsUnder(r.path, path)})

\* DeleteHandler: session, GetUser, target path, LockUserFileWrite
DeleteStart(h) ==
    /\ Accept(h)
    /\ \E u \in Accounts : \E t \in DeleteTargets : \E fail \in DeleteFaults :
        /\ req' = [req EXCEPT ![h] = NewReq("delete", u, t[1], t[2], <<>>, fail)]
        /\ Call(h, "Lock", u, "del_db")
    /\ UNCHANGED <<lockVars, storeVars, cacheVars>>

\* GetFileByPath for the size, then DeleteFileMetadataRecursive
DeleteDb(h) ==
    /\ pc[h] = "del_db"
    /\ LET rows == RowsAt(req[h].user, P(h))
           size == IF rows = {} THEN 0
                   ELSE IF \E r \in rows : r.dir THEN FolderSizeDB(req[h].user, P(h))
                   ELSE (CHOOSE r \in rows : TRUE).size
           gone == {r \in files : r.user = req[h].user /\ (r.path = P(h) \/ IsUnder(r.path, P(h)))}
       IN IF req[h].fail = "db"
          THEN /\ req' = [req EXCEPT ![h] = [Snapshot(@) EXCEPT !.status = 500]]
               /\ Exit(h, "Unlock")
               /\ UNCHANGED files
          ELSE /\ files' = files \ gone
               /\ req' = [req EXCEPT ![h] = [Snapshot(@) EXCEPT !.size = size, !.touched = gone # {}]]
               /\ pc' = [pc EXCEPT ![h] = "del_disk"]
               /\ UNCHANGED lk
    /\ UNCHANGED <<lockVars, users, disk, cacheVars, nreq, uploadLimiter, backupScheduler>>

\* os.RemoveAll(targetPath); an error answers 500 and returns
DeleteDisk(h) ==
    /\ pc[h] = "del_disk"
    /\ IF req[h].fail = "rm"
       THEN /\ req' = [req EXCEPT ![h].status = 500]
            /\ Exit(h, "Unlock")
            /\ UNCHANGED disk
       ELSE /\ disk' = [disk EXCEPT ![K(h)] = RemoveAll(@, P(h))]
            /\ req' = [req EXCEPT ![h].touched = @ \/ disk'[K(h)] # disk[K(h)]]
            /\ pc' = [pc EXCEPT ![h] = "del_cache"]
            /\ UNCHANGED lk
    /\ UNCHANGED <<lockVars, users, files, cacheVars, nreq, uploadLimiter, backupScheduler>>

\* UpdateFolderSize(parentFolder, -deletedSize); InvalidateUserCache; redirect
DeleteCache(h) ==
    /\ pc[h] = "del_cache"
    /\ folderSizeCache' = InvalidateUserCache(
            UpdateFolderSize(folderSizeCache, FolderKey(req[h].user, req[h].code, req[h].folder), -req[h].size),
            NameChars(req[h].user))
    /\ fileListCache' = InvalidateUserCache(fileListCache, NameChars(req[h].user))
    /\ req' = [req EXCEPT ![h].status = 303, ![h].inval = TRUE]
    /\ Exit(h, "Unlock")
    /\ UNCHANGED <<lockVars, storeVars, now, observed, cacheMutex, nreq, uploadLimiter, backupScheduler>>

MkdirFaults == {"none", "mkdir", "insert"}

\* CreateFolderHandler: session, folder name, GetUser, LockUserFileWrite
CreateFolderStart(h) ==
    /\ Accept(h)
    /\ \E u \in Accounts : \E fail \in MkdirFaults :
        /\ req' = [req EXCEPT ![h] = NewReq("mkdir", u, <<>>, "d", <<>>, fail)]
        /\ Call(h, "Lock", u, "mk_exists")
    /\ UNCHANGED <<lockVars, storeVars, cacheVars>>

\* FileExistsInDB: 409 when the folder has a row
CreateFolderExists(h) ==
    /\ pc[h] = "mk_exists"
    /\ IF FileExistsInDB(req[h].user, P(h))
       THEN /\ req' = [req EXCEPT ![h] = [Snapshot(@) EXCEPT !.status = 409]]
            /\ Exit(h, "Unlock")
       ELSE /\ req' = [req EXCEPT ![h] = Snapshot(@)]
            /\ pc' = [pc EXCEPT ![h] = "mk_disk"]
            /\ UNCHANGED lk
    /\ UNCHANGED <<lockVars, storeVars, cacheVars, nreq, uploadLimiter, backupScheduler>>

\* os.MkdirAll(targetPath): creates what is missing, fails on a file in the way
CreateFolderDisk(h) ==
    /\ pc[h] = "mk_disk"
    /\ IF req[h].fail = "mkdir" \/ (OnDisk(disk[K(h)], P(h)) /\ ~IsDirOnDisk(disk[K(h)], P(h)))
       THEN /\ req' = [req EXCEPT ![h].status = 500]
            /\ Exit(h, "Unlock")
            /\ UNCHANGED disk
       ELSE /\ disk' = [disk EXCEPT ![K(h)] =
                          [exists |-> TRUE,
                           tree |-> IF OnDisk(@, P(h)) THEN @.tree
                                    ELSE @.tree \cup {Entry(P(h), TRUE, h)}]]
            /\ req' = [req EXCEPT ![h].touched = disk'[K(h)] # disk[K(h)]]
            /\ pc' = [pc EXCEPT ![h] = "mk_insert"]
            /\ UNCHANGED lk
    /\ UNCHANGED <<lockVars, users, files, cacheVars, nreq, uploadLimiter, backupScheduler>>

\* AddFileMetadata for the folder; on an error os.Remove(targetPath) and 500
CreateFolderInsert(h) ==
    /\ pc[h] = "mk_insert"
    /\ IF req[h].fail = "insert" \/ ~InsertAccepted(req[h].user, P(h))
       THEN /\ disk' = [disk EXCEPT ![K(h)] = Remove(@, P(h))]
            /\ req' = [req EXCEPT ![h].status = 500, ![h].touched = @ \/ disk'[K(h)] # disk[K(h)]]
            /\ Exit(h, "Unlock")
            /\ UNCHANGED files
       ELSE /\ files' = files \cup {Row(req[h].user, P(h), TRUE, 0)}
            /\ req' = [req EXCEPT ![h].touched = TRUE]
            /\ pc' = [pc EXCEPT ![h] = "mk_cache"]
            /\ UNCHANGED <<disk, lk>>
    /\ UNCHANGED <<lockVars, users, cacheVars, nreq, uploadLimiter, backupScheduler>>

\* InvalidateUserCache(username); redirect
CreateFolderCache(h) ==
    /\ pc[h] = "mk_cache"
    /\ folderSizeCache' = InvalidateUserCache(folderSizeCache, NameChars(req[h].user))
    /\ fileListCache' = InvalidateUserCache(fileListCache, NameChars(req[h].user))
    /\ req' = [req EXCEPT ![h].status = 303, ![h].inval = TRUE]
    /\ Exit(h, "Unlock")
    /\ UNCHANGED <<lockVars, storeVars, now, observed, cacheMutex, nreq, uploadLimiter, backupScheduler>>

MoveFaults == {"none", "rename", "db"}

\* MoveFileHandler: session, GetUser, source and target path, LockUserFileWrite
MoveFileStart(h) ==
    /\ Accept(h)
    /\ \E u \in Accounts : \E src \in Folders : \E fail \in MoveFaults :
        /\ req' = [req EXCEPT ![h] =
                     NewReq("move", u, src, "f", IF src = <<>> THEN <<"d">> ELSE <<>>, fail)]
        /\ Call(h, "Lock", u, "mv_rename")
    /\ UNCHANGED <<lockVars, storeVars, cacheVars>>

\* the target path of a move
T(h) == Join(req[h].target, req[h].name)

\* os.Rename(src, dst) of a file inside one storage folder: dst is replaced
Rename(d, src, dst) ==
    LET e == CHOOSE x \in d.tree : x.path = src
    IN  [d EXCEPT !.tree = {x \in @ : x.path \notin {src, dst}} \cup {[e EXCEPT !.path = dst]}]

\* os.Stat for the size, then os.Rename(sourcePath, targetPath)
MoveFileRename(h) ==
    /\ pc[h] = "mv_rename"
    /\ IF \/ req[h].fail = "rename"
          \/ ~OnDisk(disk[K(h)], P(h))
          \/ ~ParentOnDisk(disk[K(h)], req[h].target)
       THEN /\ req' = [req EXCEPT ![h] = [Snapshot(@) EXCEPT !.status = 500]]
            /\ Exit(h, "Unlock")
            /\ UNCHANGED disk
       ELSE /\ disk' = [disk EXCEPT ![K(h)] = Rename(@, P(h), T(h))]
            /\ req' = [req EXCEPT ![h] = [Snapshot(@) EXCEPT !.touched = TRUE, !.size = 1]]
            /\ pc' = [pc EXCEPT ![h] = "mv_db"]
            /\ UNCHANGED lk
    /\ UNCHANGED <<lockVars, users, files, cacheVars, nreq, uploadLimiter, backupScheduler>>

\* UPDATE files SET storage_path = ?, parent_path = ? WHERE username = ? AND
\* storage_path = ?; on an error the file is renamed back and the answer is 500
MoveFileDb(h) ==
    /\ pc[h] = "mv_db"
    /\ LET rows == RowsAt(req[h].user, P(h))
           clash == rows # {} /\ \E r \in files : r.path = T(h)
       IN IF req[h].fail = "db" \/ clash
          THEN /\ disk' = [disk EXCEPT ![K(h)] =
                             IF OnDisk(@, T(h)) THEN Rename(@, T(h), P(h)) ELSE @]
               /\ req' = [req EXCEPT ![h].status = 500]
               /\ Exit(h, "Unlock")
               /\ UNCHANGED files
          ELSE /\ files' = (files \ rows) \cup {[r EXCEPT !.path = T(h)] : r \in rows}
               /\ pc' = [pc EXCEPT ![h] = "mv_cache"]
               /\ UNCHANGED <<disk, lk, req>>
    /\ UNCHANGED <<lockVars, users, cacheVars, nreq, uploadLimiter, backupScheduler>>

\* UpdateFolderSize(source, -size); UpdateFolderSize(target, size);
\* InvalidateUserCache; redirect
MoveFileCache(h) ==
    /\ pc[h] = "mv_cache"
    /\ folderSizeCache' = InvalidateUserCache(
            UpdateFolderSize(
                UpdateFolderSize(folderSizeCache, FolderKey(req[h].user, req[h].code, req[h].folder), -req[h].size),
                FolderKey(req[h].user, req[h].code, req[h].target), req[h].size),
            NameChars(req[h].user))
    /\ fileListCache' = InvalidateUserCache(fileListCache, NameChars(req[h].user))
    /\ req' = [req EXCEPT ![h].status = 303, ![h].inval = TRUE]
    /\ Exit(h, "Unlock")
    /\ UNCHANGED <<lockVars, storeVars, now, observed, cacheMutex, nreq, uploadLimiter, backupScheduler>>

\* DownloadHandler: session, then LockUserFileRead before anything else
DownloadStart(h) ==
    /\ Accept(h)
    /\ \E u \in Accounts : \E folder \in Folders :
        /\ req' = [req EXCEPT ![h] = NewReq("download", u, folder, "f", <<>>, "none")]
        /\ Call(h, "RLock", u, "dl_read")
    /\ UNCHANGED <<lockVars, storeVars, cacheVars>>

\* what os.Open and io.Copy deliver: 404, or the content of the file
Serve(r, d, path) ==
    IF OnDisk(d, path)
    THEN [r EXCEPT !.status = 200, !.got = {e \in d.tree : e.path = path}]
    ELSE [r EXCEPT !.status = 404]

\* GetUser (a redirect when the user is gone), os.Open, io.Copy; the deferred
\* UnlockUserFileRead
DownloadRead(h) ==
    /\ pc[h] = "dl_read"
    /\ req' = [req EXCEPT ![h] =
                 IF users[@.user] = 0 THEN [@ EXCEPT !.status = 303]
                 ELSE Serve(@, disk[<<@.user, users[@.user]>>], P(h))]
    /\ Exit(h, "RUnlock")
    /\ UNCHANGED <<lockVars, storeVars, cacheVars, nreq, uploadLimiter, backupScheduler>>

\* ThumbnailHandler: session, then LockUserFileRead
ThumbnailStart(h) ==
    /\ Accept(h)
    /\ \E u \in Accounts : \E folder \in Folders :
        /\ req' = [req EXCEPT ![h] = NewReq("thumbnail", u, folder, "f", <<>>, "none")]
        /\ Call(h, "RLock", u, "th_read")
    /\ UNCHANGED <<lockVars, storeVars, cacheVars>>

\* GetUser, os.Open, io.Copy; the deferred UnlockUserFileRead
ThumbnailRead(h) ==
    /\ pc[h] = "th_read"
    /\ req' = [req EXCEPT ![h] =
                 IF users[@.user] = 0 THEN [@ EXCEPT !.status = 401]
                 ELSE Serve(@, disk[<<@.user, users[@.user]>>], P(h))]
    /\ Exit(h, "RUnlock")
    /\ UNCHANGED <<lockVars, storeVars, cacheVars, nreq, uploadLimiter, backupScheduler>>

\* ListHandler: session, GetUser, the folder of the query
ListStart(h) ==
    /\ Accept(h)
    /\ \E u \in Accounts : \E folder \in Folders :
        /\ req' = [req EXCEPT ![h] = NewReq("list", u, folder, "", <<>>, "none")]
        /\ pc' = [pc EXCEPT ![h] = "ls_query"]
    /\ UNCHANGED <<lockVars, lk, storeVars, cacheVars>>

\* GetUserFiles: SELECT ... WHERE username = ? AND parent_path = ?
GetUserFiles(user, folder) ==
    {r \in files : r.user = user /\ Len(r.path) = Len(folder) + 1 /\ IsUnder(r.path, folder)}

\* getFileList and the other queries of ListHandler, then the template
ListQuery(h) ==
    /\ pc[h] = "ls_query"
    /\ req' = [req EXCEPT ![h].status = 200, ![h].got = GetUserFiles(req[h].user, req[h].folder)]
    /\ pc' = [pc EXCEPT ![h] = "done"]
    /\ UNCHANGED <<lockVars, lk, storeVars, cacheVars, nreq, uploadLimiter, backupScheduler>>

RenameFaults == {"none", "rename", "db"}

\* APIUpdateProfileHandler with a new username: session, UsernameExists, GetUser
UpdateProfileStart(h) ==
    /\ Accept(h)
    /\ \E u \in Accounts : \E new \in Names \ {u} : \E fail \in RenameFaults :
        /\ req' = [req EXCEPT ![h] =
                     [NewReq("rename", u, <<>>, new, <<>>, fail) EXCEPT
                        !.status = IF users[new] # 0 THEN 200 ELSE 0]]
        /\ pc' = [pc EXCEPT ![h] = IF users[new] # 0 THEN "done" ELSE "un_rename"]
    /\ UNCHANGED <<lockVars, lk, storeVars, cacheVars>>

\* UpdateUsername: the user exists, the new name is free, then
\* os.Rename(oldPath, newPath) of the storage folder
UpdateUsernameRename(h) ==
    /\ pc[h] = "un_rename"
    /\ LET old == req[h].user
           new == req[h].name
           c == users[old]
       IN IF \/ c = 0 \/ users[new] # 0 \/ req[h].fail = "rename"
             \/ ~disk[<<old, c>>].exists
             \/ disk[<<new, c>>].tree # {}
          THEN /\ req' = [req EXCEPT ![h].status = 200]
               /\ pc' = [pc EXCEPT ![h] = "done"]
               /\ UNCHANGED disk
          ELSE /\ disk' = [disk EXCEPT ![<<new, c>>] = disk[<<old, c>>], ![<<old, c>>] = NoDir]
               /\ req' = [req EXCEPT ![h].code = c, ![h].touched = TRUE]
               /\ pc' = [pc EXCEPT ![h] = "un_users"]
    /\ UNCHANGED <<lockVars, lk, users, files, cacheVars, nreq, uploadLimiter, backupScheduler>>

\* UPDATE users SET username = ? WHERE username = ? is accepted: username is
\* UNIQUE, and files.username REFERENCES users(username) with no ON UPDATE
\* action while foreign_keys is on
UsersUpdateAccepted(old, new) ==
    users[old] = 0 \/ (users[new] = 0 /\ UserRows(old) = {})

\* the UPDATE of users (on an error the folder is renamed back), then
\* UPDATE files SET username = ? WHERE username = ?, then UpdateSession
UpdateUsernameDb(h) ==
    /\ pc[h] = "un_users"
    /\ LET old == req[h].user
           new == req[h].name
           c == req[h].code
       IN IF req[h].fail = "db" \/ ~UsersUpdateAccepted(old, new)
          THEN /\ disk' = IF disk[<<new, c>>].exists /\ disk[<<old, c>>].tree = {}
                          THEN [disk EXCEPT ![<<old, c>>] = disk[<<new, c>>], ![<<new, c>>] = NoDir]
                          ELSE disk
               /\ req' = [req EXCEPT ![h].status = 200]
               /\ UNCHANGED <<users, files>>
          ELSE /\ users' = IF users[old] = 0 THEN users
                           ELSE [users EXCEPT ![new] = users[old], ![old] = 0]
               /\ files' = {IF r.user = old THEN [r EXCEPT !.user = new] ELSE r : r \in files}
               /\ req' = [req EXCEPT ![h].status = 200, ![h].got = {new}]
               /\ UNCHANGED disk
    /\ pc' = [pc EXCEPT ![h] = "done"]
    /\ UNCHANGED <<lockVars, lk, cacheVars, nreq, uploadLimiter, backupScheduler>>

\* the response has been written; the goroutine takes the next request
Finish(h) ==
    /\ pc[h] = "done"
    /\ pc' = [pc EXCEPT ![h] = "idle"]
    /\ req' = [req EXCEPT ![h] = NoReq]
    /\ UNCHANGED <<lockVars, lk, storeVars, cacheVars, nreq, uploadLimiter, backupScheduler>>

InitLock ==
    /\ userFileLocks = [u \in Names |-> Nil]
    /\ locks = <<>>
    /\ lockMapMutex = NewRWMutex
    /\ pc = [h \in Handlers |-> "idle"]
    /\ lk = [h \in Handlers |-> NoCall]
    /\ InitStore
    /\ InitCache
    /\ InitLimiter
    /\ InitBackup
    /\ req = [h \in Handlers |-> NoReq]
    /\ nreq = 0

HandlerStep(h) ==
    \/ RateLimitMiddleware(h) \/ UploadStart(h)
    \/ UploadExists(h) \/ UploadCreate(h) \/ UploadInsert(h) \/ UploadCache(h)
    \/ DeleteStart(h) \/ DeleteDb(h) \/ DeleteDisk(h) \/ DeleteCache(h)
    \/ CreateFolderStart(h) \/ CreateFolderExists(h) \/ CreateFolderDisk(h)
    \/ CreateFolderInsert(h) \/ CreateFolderCache(h)
    \/ MoveFileStart(h) \/ MoveFileRename(h) \/ MoveFileDb(h) \/ MoveFileCache(h)
    \/ DownloadStart(h) \/ DownloadRead(h) \/ ThumbnailStart(h) \/ ThumbnailRead(h)
    \/ ListStart(h) \/ ListQuery(h)
    \/ UpdateProfileStart(h) \/ UpdateUsernameRename(h) \/ UpdateUsernameDb(h)
    \/ Finish(h)

\* the server: every route of main on a pool of goroutines
NextFiles == \E h \in Handlers : HandlerStep(h) \/ LockStep(h)

SpecFiles == InitLock /\ [][NextFiles]_vars

\* the handlers that change a user's files, and the download that reads them
WriteStep(h) ==
    \/ RateLimitMiddleware(h) \/ UploadStart(h)
    \/ UploadExists(h) \/ UploadCreate(h) \/ UploadInsert(h) \/ UploadCache(h)
    \/ DeleteStart(h) \/ DeleteDb(h) \/ DeleteDisk(h) \/ DeleteCache(h)
    \/ CreateFolderStart(h) \/ CreateFolderExists(h) \/ CreateFolderDisk(h)
    \/ CreateFolderInsert(h) \/ CreateFolderCache(h)
    \/ MoveFileStart(h) \/ MoveFileRename(h) \/ MoveFileDb(h) \/ MoveFileCache(h)
    \/ DownloadStart(h) \/ DownloadRead(h)
    \/ Finish(h)
    \/ LockStep(h)

NextWrites == \E h \in Handlers : WriteStep(h)

SpecWrites == InitLock /\ [][NextWrites]_vars

\* uploads, with their error returns, and downloads
ContendStep(h) ==
    \/ RateLimitMiddleware(h) \/ UploadStart(h)
    \/ UploadExists(h) \/ UploadCreate(h) \/ UploadInsert(h) \/ UploadCache(h)
    \/ DownloadStart(h) \/ DownloadRead(h)
    \/ Finish(h)
    \/ LockStep(h)

\* a goroutine that has taken a request is scheduled until it has answered
\* it, and disk and database calls return
FairHandler(h) == WF_vars(pc[h] # "idle" /\ ContendStep(h))

SpecContendFair ==
    /\ InitLock /\ [][\E h \in Handlers : ContendStep(h)]_vars
    /\ \A h \in Handlers : FairHandler(h)

\* the caches as SetCachedFileList and UpdateFolderSize have filled them for
\* some of the users, and one call of InvalidateUserCache
InitInvalidate ==
    /\ userFileLocks = [u \in Names |-> Nil] /\ locks = <<>> /\ lockMapMutex = NewRWMutex
    /\ pc = [h \in Handlers |-> "idle"] /\ lk = [h \in Handlers |-> NoCall]
    /\ InitStore /\ InitLimiter /\ InitObserved /\ InitBackup
    /\ now = 0 /\ cacheMutex = Nil
    /\ req = [h \in Handlers |-> NoReq] /\ nreq = 0
    /\ \E listed \in SUBSET UserStrings, sized \in SUBSET UserStrings :
        /\ fileListCache =
              {[key |-> ListKeyOf(n), data |-> 1, expires |-> now + cacheTTL] : n \in listed}
        /\ folderSizeCache = {[key |-> SizeKeyOf(n), size |-> 1] : n \in sized}

SpecInvalidate == InitInvalidate /\ [][\E name \in UserStrings : CallInvalidateUser(name)]_vars

\* the file-list cache and its callers, which run one at a time under cacheMutex
NextCache ==
    \/ \E k \in CacheKeys : CallGet(k)
    \/ \E k \in CacheKeys : \E d \in Payloads : CallSet(k, d)
    \/ \E u \in LockNames : CallInvalidate(u)
    \/ Tick

SpecCache == InitLock /\ [][NextCache]_vars

\* two accounts, the second of which may already have a file f in its root
InitUploadRace ==
    /\ userFileLocks = [u \in Names |-> Nil] /\ locks = <<>> /\ lockMapMutex = NewRWMutex
    /\ pc = [h \in Handlers |-> "idle"] /\ lk = [h \in Handlers |-> NoCall]
    /\ users = [u \in Names |-> IF u = "a" THEN 1 ELSE IF u = "b" THEN 2 ELSE 0]
    /\ \E other \in SUBSET {<<"f">>} :
        /\ files = {Row("b", p, FALSE, 1) : p \in other}
        /\ disk = [k \in Names \X Codes |->
                     IF k = <<"a", 1>> THEN EmptyDir
                     ELSE IF k = <<"b", 2>> THEN [exists |-> TRUE, tree |-> {Entry(p, FALSE, Nil) : p \in other}]
                     ELSE NoDir]
    /\ InitCache
    /\ InitLimiter
    /\ InitBackup
    /\ req = [h \in Handlers |-> NoReq] /\ nreq = 0

\* upload requests only
NextUploadRace ==
    \E h \in Handlers :
        \/ RateLimitMiddleware(h) \/ UploadStart(h)
    \/ UploadExists(h) \/ UploadCreate(h) \/ UploadInsert(h) \/ UploadCache(h)
        \/ GetRLock(h) \/ GetRWake(h) \/ GetRead(h) \/ GetWLock(h) \/ GetWEnter(h) \/ GetCreate(h)
        \/ WAnnounce(h) \/ WEnter(h) \/ WUnlock(h)
        \/ Finish(h)

SpecUploadRace == InitUploadRace /\ [][NextUploadRace]_vars

\* goroutines that call UpdateFolderSize
NextFolderSize ==
    \E h \in Handlers :
        \/ UpdateFolderSizeCall(h) \/ UpdateFolderSizeLock(h) \/ UpdateFolderSizeLoad(h)
        \/ UpdateFolderSizeStore(h) \/ UpdateFolderSizeUnlock(h)

SpecFolderSize == InitLock /\ [][NextFolderSize]_vars

\* the rate limiter and its callers, which run one at a time under rl.mu
NextRate ==
    \/ \E u \in LockNames : CallAllow(u)
    \/ Tick

SpecRate == InitLock /\ [][NextRate]_vars

\* the upload scenario with a user who has been admitted up to limit times
\* in the current second already
InitUploadGate ==
    /\ userFileLocks = [u \in Names |-> Nil] /\ locks = <<>> /\ lockMapMutex = NewRWMutex
    /\ pc = [h \in Handlers |-> "idle"] /\ lk = [h \in Handlers |-> NoCall]
    /\ InitStore
    /\ fileListCache = {} /\ folderSizeCache = {} /\ now = 0 /\ cacheMutex = Nil
    /\ InitBackup
    /\ \E n \in 0..UploadLimit :
        /\ uploadLimiter = [NewRateLimiter(UploadLimit, UploadWindow) EXCEPT
                              !.requests["a"] = [i \in 1..n |-> 0]]
        /\ observed = [put |-> [k \in CacheKeys |-> NoPut], get |-> NoGet,
                       cut |-> [k \in CacheKeys |-> NoCut],
                       total |-> [k \in SizeKeys |-> 0],
                       allow |-> NoAllow,
                       admitted |-> [u \in Names |-> [t \in Times |->
                                       IF u = "a" /\ t = 0 THEN n ELSE 0]]]
    /\ req = [h \in Handlers |-> NoReq] /\ nreq = 0

SpecUploadGate == InitUploadGate /\ [][NextUploadRace]_vars

\* the backup directory at the start of the process: empty, or holding an
\* archive made more than the retention period before
InitialDirs ==
    {{}, {DirEntry(BackupPrefix \o <<"old", ".zip">>,
                   0 - DefaultRetentionDays * Day - 1, FALSE, TRUE)}}

\* names and ages (in ticks before RetentionNow) of what a backup directory
\* may hold after some days of service
RetentionNow == 2 * Day + 1
RetentionNames ==
    {BackupName(0), BackupPrefix \o <<"dir">>, LogName, <<"backup", ".old">>, <<"notes.txt">>}
RetentionAges == {0, Day - 1, Day, Day + 1, 2 * Day + 1}
RetentionDirs ==
    {{DirEntry(n, RetentionNow - age[n], n = BackupPrefix \o <<"dir">>,
               n \in {BackupName(0), BackupPrefix \o <<"dir">>}) : n \in names} :
        names \in SUBSET RetentionNames, age \in [RetentionNames -> RetentionAges]}

\* a scheduler with some retention setting over such a directory; a log
\* that is there holds the line of an earlier backup
InitRetention ==
    /\ userFileLocks = [u \in Names |-> Nil] /\ locks = <<>> /\ lockMapMutex = NewRWMutex
    /\ pc = [h \in Handlers |-> "idle"] /\ lk = [h \in Handlers |-> NoCall]
    /\ InitStore /\ InitLimiter /\ InitObserved
    /\ fileListCache = {} /\ folderSizeCache = {} /\ cacheMutex = Nil
    /\ req = [h \in Handlers |-> NoReq] /\ nreq = 0
    /\ now = RetentionNow
    /\ \E retentionDays \in 0..2, dir \in RetentionDirs :
        backupScheduler =
            [NewBackupScheduler(TRUE, retentionDays, dir) EXCEPT
                !.log = IF \E x \in dir : x.name = LogName
                        THEN <<[status |-> "SUCCESS", path |-> BackupName(0)]>>
                        ELSE <<>>]

SpecRetention == InitRetention /\ [][CallClean]_vars

\* the schedule is computed at any instant of three days
InitSchedule ==
    /\ userFileLocks = [u \in Names |-> Nil] /\ locks = <<>> /\ lockMapMutex = NewRWMutex
    /\ pc = [h \in Handlers |-> "idle"] /\ lk = [h \in Handlers |-> NoCall]
    /\ InitStore /\ InitLimiter /\ InitObserved /\ InitBackup
    /\ fileListCache = {} /\ folderSizeCache = {} /\ cacheMutex = Nil
    /\ req = [h \in Handlers |-> NoReq] /\ nreq = 0
    /\ now \in 0..(3 * Day - 1)

SpecSchedule == InitSchedule /\ [][CallNext]_vars

\* the scheduler is followed over the instants 0..MaxClock
MaxClock == 1
TickScheduler == now < MaxClock /\ Tick

\* a scheduler built with either setting of Enabled, over a backup directory
\* with or without an earlier backup; nothing else of the server runs
InitScheduler ==
    /\ userFileLocks = [u \in Names |-> Nil] /\ locks = <<>> /\ lockMapMutex = NewRWMutex
    /\ pc = [h \in Handlers |-> "idle"] /\ lk = [h \in Handlers |-> NoCall]
    /\ InitStore /\ InitCache /\ InitLimiter
    /\ req = [h \in Handlers |-> NoReq] /\ nreq = 0
    /\ \E enabled \in BOOLEAN, dir \in InitialDirs :
        backupScheduler = NewBackupScheduler(enabled, DefaultRetentionDays, dir)

\* goroutines that call Start and Stop and the goroutines of the scheduler
NextGoroutines ==
    \/ \E h \in Handlers :
          StartFlag(h) \/ StartSpawn(h) \/ StopFlag(h) \/ StopClose(h) \/ StopWait(h)
    \/ \E l \in Loops : LoopStop(l) \/ LoopFire(l) \/ LoopBackup(l) \/ LoopClean(l)
    \/ BootBackup

NextScheduler == NextGoroutines \/ TickScheduler

SpecScheduler == InitScheduler /\ [][NextScheduler]_vars

\* one goroutine calls Start and Stop, each call after the one before has
\* returned; MaxRestartCalls calls are followed
MaxRestartCalls == 4
Caller == 1

InitRestart ==
    /\ userFileLocks = [u \in Names |-> Nil] /\ locks = <<>> /\ lockMapMutex = NewRWMutex
    /\ pc = [h \in Handlers |-> "idle"] /\ lk = [h \in Handlers |-> NoCall]
    /\ InitStore /\ InitCache /\ InitLimiter
    /\ req = [h \in Handlers |-> NoReq] /\ nreq = 0
    /\ \E enabled \in BOOLEAN, dir \in InitialDirs :
        backupScheduler = [NewBackupScheduler(enabled, DefaultRetentionDays, dir)
                              EXCEPT !.budget = MaxRestartCalls]

NextRestart ==
    \/ StartFlag(Caller) \/ StartSpawn(Caller)
    \/ StopFlag(Caller) \/ StopClose(Caller) \/ StopWait(Caller)
    \/ \E l \in Loops : LoopStop(l) \/ LoopFire(l) \/ LoopBackup(l) \/ LoopClean(l)
    \/ BootBackup
    \/ TickScheduler

SpecRestart == InitRestart /\ [][NextRestart]_vars

\* one Start on an enabled scheduler and its loop with its timer, followed
\* over the instants 0..MaxTime
NextTimedLoop ==
    \/ StartFlag(Caller) \/ StartSpawn(Caller)
    \/ \E l \in Loops : TimerArm(l) \/ TimerFire(l) \/ LoopBackup(l) \/ LoopClean(l)
    \/ BootBackup
    \/ Tick

InitTimedLoop ==
    /\ InitScheduler
    /\ backupScheduler.enabled

SpecTimedLoop == InitTimedLoop /\ [][NextTimedLoop]_vars

\* a goroutine of run() is scheduled again and again: its timer fires after
\* the finite wait it was set to, and RunBackup and CleanOldBackups return
FairLoop(l) == l \in Loops /\ (LoopFire(l) \/ LoopBackup(l) \/ LoopClean(l))

\* the same goroutines within one instant of the clock
SpecSchedulerFair ==
    /\ InitScheduler /\ [][NextGoroutines]_vars
    /\ \A l \in 1..MaxCalls : WF_vars(FairLoop(l))

NextLock ==
    \E h \in Handlers :
        \/ \E u \in LockNames : LockUserFileWrite(h, u)
        \/ \E u \in LockNames : LockUserFileRead(h, u)
        \/ UnlockUserFileWrite(h)
        \/ UnlockUserFileRead(h)
        \/ LockStep(h)

SpecLock == InitLock /\ [][NextLock]_vars

\* every step of the lock service is taken once it can be; a goroutine
\* waiting for a sync.Mutex is not overtaken forever (starvation mode); a
\* handler that holds a lock releases it
FairLock(h) ==
    /\ WF_vars(LockStep(h) \/ UnlockUserFileWrite(h) \/ UnlockUserFileRead(h))
    /\ SF_vars(GetWLock(h)) /\ SF_vars(WAnnounce(h))

\* the handlers that contend for one username's lock
NextLockOne ==
    \E h \in Handlers :
        \/ \E u \in LiveNames : LockUserFileWrite(h, u)
        \/ \E u \in LiveNames : LockUserFileRead(h, u)
        \/ UnlockUserFileWrite(h)
        \/ UnlockUserFileRead(h)
        \/ LockStep(h)

SpecLockFair == InitLock /\ [][NextLockOne]_vars /\ \A h \in Handlers : FairLock(h)

\* ------------------------------------------------------------ properties
CallPCs == {"g_rlock", "g_rwait", "g_read", "g_wlock", "g_wwait", "g_create", "act"}
WriteCS == {"w_held"}
ReadCS == {"r_held"}

\* handler h has been granted username u's write (read) lock and has not
\* released it yet
HoldsWrite(h, u) ==
    /\ lk[h].user = u
    /\ \/ pc[h] \in WriteCS
       \/ lk[h].op = "Unlock" /\ pc[h] \in CallPCs
HoldsRead(h, u) ==
    /\ lk[h].user = u
    /\ \/ pc[h] \in ReadCS
       \/ lk[h].op = "RUnlock" /\ pc[h] \in CallPCs

\* handler h is asking for username u's lock and has not been granted it
Requests(h, u, op) ==
    /\ lk[h].user = u /\ lk[h].op = op
    /\ pc[h] \in CallPCs \cup {"w_wait", "r_wait"}

\* C1: for every username, no two handlers hold its write lock at once and
\* no handler holds its write lock while another holds its read lock.
C1_MutualExclusion ==
    \A u \in Names : \A h1, h2 \in Handlers :
        (h1 # h2 /\ HoldsWrite(h1, u)) => ~HoldsWrite(h2, u) /\ ~HoldsRead(h2, u)

\* a writer holds the lock while another handler is waiting for the same lock
C1_Witness ==
    \E u \in Names : \E h1, h2 \in Handlers :
        /\ h1 # h2 /\ HoldsWrite(h1, u)
        /\ lk[h2].user = u /\ pc[h2] \in {"w_wait", "r_wait"}

\* C2: every GetUserFileLock(U) call returns the instance registered for U,
\* and a registered instance is never replaced or removed.
C2_OneLockPerUser ==
    /\ [](\A h \in Handlers : lk[h].got # Nil => lk[h].got = userFileLocks[lk[h].user])
    /\ [][\A u \in Names : userFileLocks[u] # Nil => userFileLocks'[u] = userFileLocks[u]]_vars

\* two first references to a new username raced: one created the lock, the
\* other is at the double-check and finds it
C2_Witness ==
    \E h1, h2 \in Handlers :
        /\ h1 # h2 /\ lk[h1].user = lk[h2].user
        /\ pc[h1] = "g_create" /\ userFileLocks[lk[h1].user] # Nil
        /\ lk[h2].got = userFileLocks[lk[h2].user]
        /\ Len(locks) = 1

\* C3: a handler that asks for the lock of a username nobody else is using is
\* never made to wait, whatever locks are held for other usernames; the
\* registry guard is never held by a handler that waits for a user lock.
C3_CrossUserIndependence ==
    /\ \A h \in Handlers :
        (lk[h].op \in {"Lock", "RLock"} /\ \A h2 \in Handlers \ {h} : lk[h2].user # lk[h].user) =>
            /\ (pc[h] = "act" /\ lk[h].op = "Lock") => ENABLED WAnnounce(h)
            /\ pc[h] = "w_wait" => ENABLED WEnter(h)
            /\ (pc[h] = "act" /\ lk[h].op = "RLock") => ENABLED RGrant(h)
            /\ pc[h] = "r_wait" => ENABLED RWake(h)
    /\ lockMapMutex.w # Nil => pc[lockMapMutex.w] \in {"g_wwait", "g_create"}
    /\ \A r \in lockMapMutex.readers : pc[r] \in {"g_rwait", "g_read"}

\* a handler is about to take one username's lock while another handler holds
\* a different username's write lock
C3_Witness ==
    \E h1, h2 \in Handlers : \E u1, u2 \in Names :
        /\ u1 # u2 /\ HoldsWrite(h1, u1) /\ pc[h1] \in WriteCS
        /\ lk[h2].user = u2 /\ lk[h2].op \in {"Lock", "RLock"} /\ pc[h2] = "act"

\* C8: with no writer active or waiting on a username's lock, a read-lock
\* request is granted at once however many readers already hold it, and a
\* reader only ever waits behind a writer.
C8_ReadersShare ==
    \A h \in Handlers :
        /\ (pc[h] = "act" /\ lk[h].op = "RLock" /\ locks[lk[h].got].w = Nil) => ENABLED RGrant(h)
        /\ (pc[h] = "r_wait" /\ h \in locks[lk[h].got].blocked) => locks[lk[h].got].w # Nil

\* two handlers hold the same username's read lock at once
C8_Witness ==
    \E u \in Names : \E h1, h2 \in Handlers :
        h1 # h2 /\ HoldsRead(h1, u) /\ HoldsRead(h2, u) /\ pc[h1] \in ReadCS /\ pc[h2] \in ReadCS

\* C9: a handler that requests a username's write lock eventually holds it,
\* provided holders release, even if read requests keep arriving.
C9_WriterProgress ==
    \A h \in Handlers : (lk[h].op = "Lock") ~> (pc[h] \in WriteCS)

\* a writer has announced itself and waits for a reader to leave
C9_Witness ==
    \E h1, h2 \in Handlers : \E u \in Names :
        /\ pc[h1] = "w_wait" /\ lk[h1].user = u /\ HoldsRead(h2, u)

\* handler h is the writer inside username u's registered lock
OwnsWrite(h, u) ==
    /\ userFileLocks[u] # Nil
    /\ locks[userFileLocks[u]].w = h
    /\ locks[userFileLocks[u]].held

\* handler h is a reader inside username u's registered lock
OwnsRead(h, u) ==
    /\ userFileLocks[u] # Nil
    /\ h \in locks[userFileLocks[u]].readers

\* C4: every step that changes the storage folder or the file rows of a
\* username (an upload, a delete, a new folder, a move, or the username
\* change) is taken by a handler that is holding that username's write lock.
C4_WriteLockCoversMutations ==
    [][\A u \in Names :
          (UserRows(u)' # UserRows(u) \/ \E c \in Codes : disk'[<<u, c>>] # disk[<<u, c>>])
              => \E h \in Handlers : pc'[h] # pc[h] /\ OwnsWrite(h, u)]_vars

\* handler h found the path of its request free, in the rows and on disk,
\* when it entered its critical section
SawFree(h) ==
    /\ ~\E r \in req[h].snapRows : r.path = P(h)
    /\ ~\E e \in req[h].snapTree : e.path = P(h)

\* C5: when two uploads of one user to one path of the user's root that was
\* free when the first of them took the lock, neither of them hit by an I/O
\* fault, have both answered, one was accepted (303) and the other got 409,
\* the path has exactly one row, and the file has the accepted content.
C5_OneUploadWins ==
    \A h1, h2 \in Handlers :
        (/\ h1 # h2
         /\ pc[h1] = "done" /\ pc[h2] = "done"
         /\ req[h1].kind = "upload" /\ req[h2].kind = "upload"
         /\ req[h1].user = req[h2].user /\ P(h1) = P(h2)
         /\ req[h1].folder = <<>>
         /\ req[h1].fail = "none" /\ req[h2].fail = "none"
         /\ SawFree(h1) \/ SawFree(h2))
        => /\ {req[h1].status, req[h2].status} = {303, 409}
           /\ Cardinality(RowsAt(req[h1].user, P(h1))) = 1
           /\ \E w \in {h1, h2} :
                /\ req[w].status = 303
                /\ Entry(P(w), FALSE, w) \in disk[K(w)].tree

\* C6: a handler that is about to read a user's rows or files for a listing,
\* a download or a thumbnail is a reader of that user's lock, so no writer
\* of that user is inside its critical section.
C6_ReadLockCoversReads ==
    \A h \in Handlers :
        pc[h] \in {"ls_query", "dl_read", "th_read"}
            => /\ OwnsRead(h, req[h].user)
               /\ \A w \in Handlers : ~OwnsWrite(w, req[h].user)

\* C7: when an upload, delete, create-folder or move handler gives up the
\* write lock after changing the user's files or rows, it has called
\* InvalidateUserCache for the user.
C7_InvalidateBeforeUnlock ==
    \A h \in Handlers :
        (/\ req[h].kind \in {"upload", "delete", "mkdir", "move"}
         /\ lk[h].op = "Unlock"
         /\ Changed(h))
        => req[h].inval

\* C10: a GetCachedFileList(K) made after a SetCachedFileList(K, V), with no
\* later set or invalidation of K, less than cacheTTL after that set returns
\* (V, found); the last set alone decides the payload and the expiry, so a
\* get made more than cacheTTL after it finds nothing.
C10_GetAfterPut ==
    LET g == observed.get
    IN  g # NoGet /\ observed.put[g.key] # NoPut =>
            LET p == observed.put[g.key]
            IN  /\ now - p.at < cacheTTL => g.found /\ g.data = p.data
                /\ now - p.at > cacheTTL => ~g.found

\* a get returned the payload of a set that replaced an earlier entry, at a
\* time when the entry it replaced would have expired
C10_Witness ==
    LET g == observed.get
    IN  /\ g # NoGet /\ g.found
        /\ observed.put[g.key].over
        /\ g.data = observed.put[g.key].data
        /\ observed.put[g.key].at > 0
        /\ now > cacheTTL /\ now - observed.put[g.key].at < cacheTTL

\* C11: a GetCachedFileList(K) made after InvalidateUserCache for the user K
\* belongs to, with no SetCachedFileList(K) since, finds nothing, however
\* much of the entry's lifetime was left.
C11_GetAfterInvalidate ==
    LET g == observed.get
    IN  g # NoGet /\ observed.cut[g.key].cut => ~g.found /\ g.data = Nil

\* a get that found nothing although the entry that was invalidated had not
\* reached its expiry
C11_Witness ==
    LET g == observed.get
    IN  /\ g # NoGet /\ ~g.found
        /\ observed.cut[g.key].cut
        /\ now < observed.cut[g.key].at + cacheTTL

\* C12: once a handler has called InvalidateUserCache for its user, and
\* until it gives the user's write lock back, GetFolderSize finds no entry
\* for any folder of that user's storage area.
C12_InvalidateDropsFolderSizes ==
    \A h \in Handlers :
        req[h].inval /\ lk[h].op = "Unlock" =>
            \A folder \in Folders :
                ~GetFolderSize(folderSizeCache, FolderKey(req[h].user, req[h].code, folder)).found

\* C13: a GetCachedFileList that reports found has an entry for its key and
\* is made strictly before the entry's expiry; at the expiry and after it
\* nothing is found.
C13_FoundOnlyBeforeExpiry ==
    LET g == observed.get
    IN  g # NoGet /\ g.found =>
            \E e \in fileListCache : e.key = g.key /\ e.data = g.data /\ now < e.expires

\* C14: two UpdateFolderSize calls for a path leave the total that one call
\* with the sum of their deltas leaves, from every cache state; and when no
\* call is in progress the stored total of every path is the sum of the
\* deltas of all the calls that have returned, so concurrent calls lose none.
C14_Additivity ==
    /\ \A key \in SizeKeys : \A d1, d2 \in Deltas :
          UpdateFolderSize(UpdateFolderSize(folderSizeCache, key, d1), key, d2)
              = UpdateFolderSize(folderSizeCache, key, Wrap(d1 + d2))
    /\ (\A h \in Handlers : pc[h] \in {"idle", "fs_lock"}) =>
          \A key \in SizeKeys :
              GetFolderSize(folderSizeCache, key).size = observed.total[key]

\* two calls for one path overlap: one waits for the mutex while the other
\* is between its read and its write, the total of a path being negative
C14_Witness ==
    \E h1, h2 \in Handlers :
        /\ pc[h1] = "fs_store" /\ pc[h2] = "fs_lock"
        /\ req[h1].folder = req[h2].folder
        /\ \E key \in SizeKeys : observed.total[key] < 0 /\ GetFolderSize(folderSizeCache, key).found

\* C15: a call of Allow answers true exactly when fewer than limit admitted
\* timestamps of the user lie in the trailing window (now - window, now];
\* then it stores the current time after the timestamps of that window, and
\* a call that answers false leaves the user's list as it was.
C15_AllowIffBelowLimit ==
    LET c == observed.allow
        stored == uploadLimiter.requests[c.user]
    IN  c # NoAllow =>
          /\ c.ok <=> c.earlier < uploadLimiter.limit
          /\ c.ok => /\ Len(stored) = c.earlier + 1
                     /\ stored[Len(stored)] = c.at
                     /\ SubSeq(stored, 1, Len(stored) - 1)
                          = SelectSeq(c.before, LAMBDA r : r > c.at - uploadLimiter.window)
          /\ ~c.ok => stored = c.before

\* a call was refused: the user's list held limit timestamps of the window,
\* the oldest of them from an earlier time
C15_Witness ==
    LET c == observed.allow
    IN  /\ c # NoAllow /\ ~c.ok
        /\ c.earlier = uploadLimiter.limit
        /\ Len(c.before) = uploadLimiter.limit
        /\ c.before[1] < c.at
        /\ uploadLimiter.requests[c.user] = c.before

\* C16: for every user and every time t, the calls admitted with a timestamp
\* in (t - window, t] are at most limit, wherever t lies.
C16_SlidingWindowBound ==
    \A u \in LockNames : \A t \in Times :
        AdmittedIn(u, t, uploadLimiter.window) <= uploadLimiter.limit

\* a burst across a multiple of the window: calls admitted just before and
\* at the boundary fill the limit, and a further call at the boundary is
\* refused
C16_Witness ==
    LET c == observed.allow
    IN  /\ c # NoAllow /\ ~c.ok /\ c.at = now
        /\ now > 0 /\ now % uploadLimiter.window = 0
        /\ observed.admitted[c.user][now] >= 1
        /\ observed.admitted[c.user][now - 1] >= 1
        /\ AdmittedIn(c.user, now, uploadLimiter.window) = uploadLimiter.limit

\* the calls admitted for u at time t before the last call of Allow was made
AdmittedBefore(u, t) ==
    LET c == observed.allow
    IN  observed.admitted[u][t] - (IF c.user = u /\ c.at = t /\ c.ok THEN 1 ELSE 0)

C18_AdmissionBeforeLocking ==
    [][\A h \in Handlers :
          /\ (req'[h].kind = "upload" /\ lk'[h].op = "Lock" /\ lk[h].op # "Lock")
                => req[h].gate = "ok"
          /\ req'[h].gate = "refused" =>
                /\ req'[h].status = 429 /\ pc'[h] = "done" /\ lk'[h] = NoCall
                /\ req[h].gate # "refused" =>
                      /\ pc[h] = "idle"
                      /\ UNCHANGED <<lockVars, storeVars, fileListCache, folderSizeCache>>]_vars

\* an upload has been refused with 429 while another upload of the same
\* user, admitted before it, is inside the user's write lock
C18_Witness ==
    \E h1, h2 \in Handlers :
        /\ req[h1].gate = "refused" /\ req[h1].status = 429 /\ pc[h1] = "done"
        /\ req[h2].kind = "upload" /\ req[h2].user = req[h1].user
        /\ OwnsWrite(h2, req[h2].user)

\* C19: whatever calls of Start and Stop have been made, at most one
\* goroutine of run() is alive at any time.
C19_OneLoop == Cardinality({l \in Loops : Alive(l)}) <= 1

\* C20: once a Stop that found the scheduler running has returned, the
\* goroutine of run() belonging to the Start it stopped has exited, so that
\* goroutine starts no backup attempt afterwards.
C20_StopIsSynchronous ==
    \A l \in Loops :
        backupScheduler.loops[l].gen \in backupScheduler.returned => ~Alive(l)

\* a backup attempt started by the scheduler is writing its archive
Writing(bs) ==
    \/ Len(bs.boots) > 0
    \/ \E l \in 1..Len(bs.loops) : bs.loops[l].st = "backup"

\* C21: at the moment a Stop that found the scheduler running returns, no
\* backup attempt started by the scheduler is still writing an archive.
C21_NoTornArchiveAcrossStop ==
    [][\A h \in Handlers :
          pc[h] = "bs_wait" /\ pc'[h] = "idle" => ~Writing(backupScheduler')]_vars

\* the backup directory holds an archive that a backup attempt has finished
HasPriorArchive(bs) == \E x \in bs.dir : x.whole

\* C22: a Start of an enabled scheduler starts an initial backup in the
\* background, and returns while it runs, exactly when the backup directory
\* holds no prior archive.
C22_BootstrapRule ==
    [][\A h \in Handlers :
          pc[h] = "bs_spawn" /\ pc'[h] = "idle" =>
              IF HasPriorArchive(backupScheduler)
              THEN backupScheduler'.boots = backupScheduler.boots
              ELSE backupScheduler'.boots = Append(backupScheduler.boots, now)]_vars

\* the attempts that have returned and could open the log
Loggable(r) == r.fault # "log"

\* C23: the backup log holds one line for every backup attempt that has
\* returned (and could open the log), in order, and the line of a failed
\* attempt says FAILED.
C23_OneLogLinePerAttempt ==
    LET bs == backupScheduler
        attempts == SelectSeq(bs.results, Loggable)
    IN  /\ Len(bs.log) = Len(attempts)
        /\ \A i \in 1..Len(attempts) :
              bs.log[i].status = IF attempts[i].success THEN "SUCCESS" ELSE "FAILED"

\* the latest attempt of loop l has returned success = false with its error
FailedAttempt(l) ==
    /\ l \in Loops
    /\ backupScheduler.loops[l].st # "backup"
    /\ ~backupScheduler.loops[l].last.success
    /\ backupScheduler.loops[l].last.error # NoError

\* C24: after a scheduled attempt has failed, the loop that made it performs
\* its next attempt, unless the stop channel has been closed (or the
\* MaxAttempts attempts that are followed have all been started).
C24_FailureKeepsScheduling ==
    \A l \in 1..MaxCalls :
        FailedAttempt(l) ~>
            \/ l \in Loops /\ backupScheduler.loops[l].st = "backup"
            \/ backupScheduler.stopChan = "closed"
            \/ backupScheduler.started = MaxAttempts

\* a loop whose first attempt failed is making its second attempt
C24_Witness ==
    \E l \in Loops :
        /\ backupScheduler.loops[l].st = "backup"
        /\ backupScheduler.loops[l].last.error # NoError
        /\ backupScheduler.stopChan = "open"

Prefixed(x) == Len(x.name) >= 2 /\ x.name[1] = "backup" /\ x.name[2] = "_"

\* C26: with RetentionDays = R > 0, CleanOldBackups deletes every entry named
\* backup_... that was modified more than R days before the call (unless the
\* file system refuses its removal) and keeps every entry modified less than
\* R days before it and every entry without the prefix.
C26_Retention ==
    LET c == observed.clean
        R == backupScheduler.retentionDays
    IN  c.done /\ R > 0 =>
            \A x \in c.before :
                /\ Prefixed(x) /\ c.at - x.mtime > R * Day /\ x.name \notin c.unremovable
                      => x \notin backupScheduler.dir
                /\ ~Prefixed(x) \/ c.at - x.mtime < R * Day
                      => x \in backupScheduler.dir

\* a call with R = 1 has deleted an archive older than a day and kept a
\* younger archive and an old file without the prefix
C26_Witness ==
    LET c == observed.clean
    IN  /\ c.done /\ backupScheduler.retentionDays = 1
        /\ \E x \in c.before :
              Prefixed(x) /\ c.at - x.mtime = Day + 1 /\ x \notin backupScheduler.dir
        /\ \E x \in backupScheduler.dir : Prefixed(x) /\ c.at - x.mtime = Day - 1
        /\ \E x \in backupScheduler.dir : ~Prefixed(x) /\ c.at - x.mtime = 2 * Day + 1

\* some instant of the zone has the clock reading w
OnTheClock(z, w) == \E t \in (w - Hour)..(w + Hour) : Wall(z, t) = w

\* C27: the next backup time is the scheduled hour:minute of today when the
\* clock has not passed it and of tomorrow when it has (where the zone has
\* such a reading), and the wait until then is at least zero and at most 24
\* hours.
C27_NextFireTime ==
    LET c == observed.next
        today == DayOf(Wall(c.zone, c.at))
        due == today * Day + c.hour * Hour + c.minute
        target == IF Wall(c.zone, c.at) <= due THEN due ELSE due + Day
    IN  c.done =>
            /\ OnTheClock(c.zone, target) => Wall(c.zone, c.next) = target
            /\ c.wait >= 0
            /\ c.wait <= DayHours * Hour

\* C28: a listing request of user U that has been answered has called
\* GetCachedFileList with a key of U.
C28_ListingUsesCache ==
    \A h \in Handlers :
        req[h].kind = "list" /\ pc[h] = "done" /\ req[h].status = 200 =>
            observed.get.key \in KeysOf(req[h].user)

\* C29: whenever no handler holds the write lock of a registered user, the
\* user's storage folder has an entry at a path exactly when the file rows
\* have a record of the user at that path.
C29_DiskMatchesMetadata ==
    \A u \in Accounts :
        (\A h \in Handlers : ~OwnsWrite(h, u)) =>
            LET d == disk[<<u, users[u]>>]
            IN  /\ \A e \in d.tree : FileExistsInDB(u, e.path)
                /\ \A r \in UserRows(u) : OnDisk(d, r.path)

\* handler h holds the registry guard, the cache lock, or a user lock other
\* than lock number except
HoldsOther(h, except) ==
    \/ lockMapMutex.w = h \/ h \in lockMapMutex.readers
    \/ cacheMutex = h
    \/ \E i \in 1..Len(locks) : i # except /\ (locks[i].w = h \/ h \in locks[i].readers)

\* handler h is inside LockUserFileWrite or LockUserFileRead
Requesting(h) ==
    /\ lk[h].op \in {"Lock", "RLock"}
    /\ pc[h] \in CallPCs \cup {"w_wait", "r_wait"}

C31_RateWindowPruning ==
    LET c == observed.allow
        stored == uploadLimiter.requests[c.user]
    IN  c # NoAllow =>
          /\ \A i \in 1..Len(stored) : stored[i] > c.at - uploadLimiter.window
          /\ Len(stored) <= uploadLimiter.limit

\* a call was admitted for a user whose list held a timestamp that had left
\* the window, and the list it stored no longer holds that timestamp
C31_Witness ==
    LET c == observed.allow
        stored == uploadLimiter.requests[c.user]
    IN  /\ c # NoAllow /\ c.ok
        /\ \E i \in 1..Len(c.before) : c.before[i] <= c.at - uploadLimiter.window
        /\ \E i \in 1..Len(c.before) : c.before[i] > c.at - uploadLimiter.window
        /\ Len(stored) < Len(c.before) + 1

\* the folder the request puts its entry into was on disk when the handler
\* entered its critical section
SawParent(h) ==
    \/ req[h].folder = <<>>
    \/ \E e \in req[h].snapTree : e.path = req[h].folder /\ e.dir

\* C32: an upload or create-folder request of a user that was admitted, hit
\* no I/O fault and found nothing of that user at its path succeeds (303),
\* whatever files and folders the other users have, the same relative path
\* included.
C32_CrossUserIndependence ==
    \A h \in Handlers :
        (/\ pc[h] = "done"
         /\ req[h].kind \in {"upload", "mkdir"}
         /\ req[h].fail = "none" /\ req[h].gate # "refused"
         /\ SawFree(h) /\ SawParent(h))
        => req[h].status = 303

\* GetStatus, under bs.mu: the "isRunning" entry of the status map
GetStatus(bs) == [enabled |-> bs.enabled, isRunning |-> bs.isRunning]

\* C33: whenever no call of Start or Stop is in progress, the running flag
\* that GetStatus reports is true exactly when a run() loop of the scheduler
\* has been started and has not returned, a scheduler started with backups
\* disabled included.
C33_RunningFlagTruth ==
    (\A h \in Handlers : pc[h] = "idle")
        => (GetStatus(backupScheduler).isRunning <=> \E l \in Loops : Alive(l))

\* C34: over calls of Start and Stop made one after the other, no call
\* panics, and whenever a Start issued on a stopped, enabled scheduler has
\* returned and no Stop has been called since, the run() loop of that Start
\* is alive (waiting for its timer, or inside the attempt the timer started).
C34_RestartSafety ==
    LET bs == backupScheduler
    IN  /\ ~bs.panicked
        /\ (pc[Caller] = "idle" /\ bs.enabled /\ bs.isRunning)
              => \E l \in Loops : Alive(l) /\ bs.loops[l].gen = bs.gen

\* C35: the loop makes at most one backup attempt for each fire time its
\* timer was set for, and the fire time it computes after an attempt is
\* strictly later than the fire time of that attempt, also when the attempt
\* has ended while the clock still reads that fire time.
C35_OneAttemptPerFireTime ==
    LET f == observed.fires
    IN  /\ \A i, j \in 1..Len(f) : i # j => f[i] # f[j]
        /\ (observed.next.done /\ f # <<>>) => observed.next.next > f[Len(f)]

\* ListBackups: the entries of the backup directory whose name starts with
\* backup_ (returned sorted by name, newest first; the order is not modelled)
ListBackups(bs) == {x \in bs.dir : HasPrefix(x.name, BackupPrefix)}

\* C36: every entry that ListBackups returns is a whole archive written by
\* an attempt that reported success: a failed attempt leaves no entry with
\* the backup prefix behind, and the backup log is not among the entries.
C36_OnlyCompletedBackupsPublished ==
    \A x \in ListBackups(backupScheduler) : x.whole /\ x.name # LogName

\* the start times of the RunBackup executions in progress: initial backups
\* and the attempts of the loops
BootsRunning == 1..Len(backupScheduler.boots)
LoopsRunning == {l \in Loops : backupScheduler.loops[l].st = "backup"}

\* C37: RunBackup executions that are in progress at the same time (initial
\* backups, scheduled attempts) write to archives of different names.
C37_DistinctArchivePaths ==
    LET bs == backupScheduler
    IN  /\ \A i, j \in BootsRunning :
              i # j => BackupName(bs.boots[i]) # BackupName(bs.boots[j])
        /\ \A l, m \in LoopsRunning :
              l # m => BackupName(bs.loops[l].t0) # BackupName(bs.loops[m].t0)
        /\ \A i \in BootsRunning : \A l \in LoopsRunning :
              BackupName(bs.boots[i]) # BackupName(bs.loops[l].t0)

\* C38: a call of InvalidateUserCache for a user leaves every file-list
\* entry and every folder-size entry of every other user as it was, also
\* those of a user whose name begins with the name of the first.
C38_InvalidateTouchesOnlyOwner ==
    LET c == observed.inval
    IN  c.done =>
          \A other \in UserStrings \ {c.user} :
              /\ \A e \in c.lists : e.key = ListKeyOf(other) => e \in fileListCache
              /\ \A e \in c.sizes : e.key = SizeKeyOf(other) => e \in folderSizeCache

\* C39: no step of the scheduler, CleanOldBackups with any retention
\* setting included, removes the backup log or a line of it: the lines the
\* log held before a step are the first lines of the log after it.
C39_LogAppendOnly ==
    [][/\ Len(backupScheduler'.log) >= Len(backupScheduler.log)
       /\ SubSeq(backupScheduler'.log, 1, Len(backupScheduler.log)) = backupScheduler.log
       /\ (\E x \in backupScheduler.dir : x.name = LogName)
             => (\E x \in backupScheduler'.dir : x.name = LogName)]_vars

====
